---- MODULE Spec2Model ----
(***************************************************************************)
(* Model of the orchestration core used by the langgraph-101-js modules:   *)
(* the message reducer addMessages (multi-agent/assistant-agent.ts), and   *)
(* the graphs built in hil-assistant.ts, memory-hil-rag.ts and             *)
(* music-subagent.ts, run by a step scheduler with a checkpoint store and  *)
(* the interrupt/resume protocol.                                          *)
(***************************************************************************)
EXTENDS Integers, Sequences, FiniteSets, TLC

VARIABLES
    \* ---- message reducer harness (specification SpecMerge) ----
    mpc,          \* "input" | "merged" | "replayed"
    left,         \* the caller's left list, as the caller sees it (objects are shared)
    right,        \* the caller's right list, as the caller sees it
    left0,        \* the left list as passed in (history)
    right0,       \* the right list as passed in (history)
    merged,       \* result of addMessages(left, right)
    replayed,     \* result of addMessages(merged, right)
    uuidCounter,  \* number of uuidv4() values generated so far
    objects,      \* which message object stands at each position of the two lists
    \* ---- graph runs (specification Spec) ----
    graph,        \* the compiled graph of this process: "hil" | "rag" | "music" | "mem"
    strict,       \* whether the build runs the modules as strict-mode code
    store,        \* long-term memory store: customer id -> profile under "user_memory"
    memRead,      \* thread id -> where the session's memory node is between its
                  \*              awaits: what store.get answered (pending, item) and
                  \*              what store.put has written (put, profile), or NotRead
    ckpts,        \* checkpoint store: thread id -> sequence of checkpoints
    status,       \* thread id -> "absent" | "running" | "suspended" | "terminated" | "halted"
    values,       \* thread id -> execution state of the run in progress
    cur,          \* thread id -> node the scheduler invokes next
    budget,       \* thread id -> remaining steps of the run in progress
    resumeVal,    \* thread id -> value the next interrupt() call returns, or NoResume
    result,       \* what the last invoke / resume / getState call returned
    calls,        \* thread id -> number of invoke, resume and getState calls made on it
    runBudget,    \* thread id -> budget the run in progress started with (history)
    trace,        \* thread id -> events of the session, oldest first (history)
    routings,     \* the last evaluation of each routing function in each
                  \*   session: session, node, state and grader decision
                  \*   given, label returned and node routed to (history)
    waiting       \* thread id -> resume values of the resume calls made on
                  \*   the session and not yet taken up

mergeVars == <<mpc, left, right, left0, right0, merged, replayed, uuidCounter, objects>>

engineVars == <<graph, strict, store, memRead, ckpts, status, values, cur, budget, resumeVal, result,
                calls, runBudget, trace, routings, waiting>>

vars == <<mergeVars, engineVars>>

(***************************************************************************)
(* Bounds                                                                  *)
(***************************************************************************)
MaxLen == 2        \* longest message list given to the reducer
MaxBudget == 4     \* largest step budget a caller gives a run
MaxCalls == 3      \* invoke, resume and getState calls made with one session

(***************************************************************************)
(* Threads (sessions).  The callers of this model start sessions on        *)
(* Clients only; resume and getState may name any thread id.               *)
(***************************************************************************)
Threads == {"t1", "t2"}
Clients == {"t1"}

Null == "__null__"           \* JavaScript null
NoState == [undefined |-> TRUE]   \* no execution state held, none returned
NoResume == "__no_resume__"  \* no Command({resume}) value is pending
NoInterrupt == "__none__"    \* a checkpoint without a pending interrupt value
END == "__end__"

\* The graph part of the state when only the reducer harness runs.
\* A memory node that is at none of its awaits: no store.get has answered
\* (pending, item) and no store.put has been made (put, profile).
NotRead ==
    [pending |-> FALSE,
     item |-> [found |-> FALSE,
               value |-> [customer_id |-> Null, music_preferences |-> <<>>]],
     put |-> FALSE,
     profile |-> [customer_id |-> Null, music_preferences |-> <<>>]]

EngineOff ==
    /\ graph = "none"
    /\ strict = TRUE
    /\ store = <<>>
    /\ memRead = [s \in Threads |-> NotRead]
    /\ ckpts = [s \in Threads |-> <<>>]
    /\ status = [s \in Threads |-> "absent"]
    /\ values = [s \in Threads |-> NoState]
    /\ cur = [s \in Threads |-> END]
    /\ budget = [s \in Threads |-> 0]
    /\ resumeVal = [s \in Threads |-> NoResume]
    /\ result = [op |-> "none"]
    /\ calls = [s \in Threads |-> 0]
    /\ runBudget = [s \in Threads |-> 0]
    /\ trace = [s \in Threads |-> <<>>]
    /\ routings = {}
    /\ waiting = [s \in Threads |-> {}]

(***************************************************************************)
(* Messages.  A message is a record with an id and a content.  The id is   *)
(* a string in the source; here an id is a small record:                   *)
(*   NoId      the id is missing (undefined or ""), so !m.id is true        *)
(*   GivenId   an ordinary id supplied with the message                    *)
(*   ProtoId   an id supplied with the message that is also the name of a  *)
(*             data property every plain object inherits ("constructor",   *)
(*             "toString", ...): assigning to it creates an own key        *)
(*   DunderProtoId  the id "__proto__", the inherited accessor: assigning  *)
(*             a number to it creates no own key and changes nothing,      *)
(*             reading it gives Object.prototype                           *)
(*   Uuid(n)   the n-th value returned by uuidv4(): fresh, never reused    *)
(***************************************************************************)
NoId == [kind |-> "none", n |-> 0]
GivenId(n) == [kind |-> "given", n |-> n]
ProtoId == [kind |-> "proto", n |-> 0]
DunderProtoId == [kind |-> "dunder", n |-> 0]
Uuid(n) == [kind |-> "uuid", n |-> n]

GivenIds == {GivenId(1), GivenId(2)}
InputIds == {NoId, ProtoId, DunderProtoId} \cup GivenIds
Contents == {"a", "b"}
InputMessages == [id : InputIds, content : Contents]

SeqsUpTo(S, n) == UNION {[1..k -> S] : k \in 0..n}

\* !m.id
LacksId(m) == m.id = NoId

(***************************************************************************)
(* addMessages, part_001 lines 42-74                                       *)
(***************************************************************************)
\* Message objects.  The lists hold references: objs names, position by
\* position, the object that stands there, and the same object can stand at
\* two positions, of one list or of both.
DistinctObjects(l, r) ==
    [left  |-> [i \in 1..Len(l) |-> i],
     right |-> [j \in 1..Len(r) |-> Len(l) + j]]
NoObjectHasId == [o \in {} |-> NoId]

\* lines 47-51 / 52-56: forEach(m => { if (!m.id) m.id = uuidv4() }).
\* The copy made by slice() is shallow, so the assignment is made on the
\* caller's message objects: assigned holds the ids given so far in the
\* call, by object, and an object that was given one has it wherever it
\* stands.  Result: the list after the loop, the uuid counter after it and
\* the ids given.
RECURSIVE AssignMissingIds(_, _, _, _)
AssignMissingIds(list, objs, counter, assigned) ==
    IF list = <<>> THEN [list |-> <<>>, counter |-> counter, assigned |-> assigned]
    ELSE LET m == Head(list)
             o == Head(objs)
             had == o \in DOMAIN assigned
             fresh == LacksId(m) /\ ~had
             h == IF ~LacksId(m) THEN m
                  ELSE IF had THEN [m EXCEPT !.id = assigned[o]]
                  ELSE [m EXCEPT !.id = Uuid(counter + 1)]
             rest == AssignMissingIds(Tail(list), Tail(objs),
                                      IF fresh THEN counter + 1 ELSE counter,
                                      IF fresh THEN assigned @@ (o :> Uuid(counter + 1))
                                      ELSE assigned)
         IN  [list |-> <<h>> \o rest.list, counter |-> rest.counter,
              assigned |-> rest.assigned]

\* lines 58-61: leftIdxById[m.id] = i for each i in order, so a later element
\* with the same id overwrites the index of an earlier one.  The result is the
\* set of own keys with their index (1-based here).  The assignment to
\* "__proto__" goes to the inherited setter, which ignores a number: no own
\* key is made for it.
LeftIdxById(leftCopy) ==
    [id \in {leftCopy[i].id : i \in 1..Len(leftCopy)} \ {DunderProtoId} |->
        CHOOSE i \in 1..Len(leftCopy) :
            /\ leftCopy[i].id = id
            /\ \A j \in 1..Len(leftCopy) : leftCopy[j].id = id => j <= i]

\* line 65: leftIdxById[m.id] on a plain object {}.  An own key gives its
\* index; a key that is not an own key but names an inherited property gives
\* that property (a function, or Object.prototype for "__proto__"), which is
\* not undefined; any other key gives undefined.
Lookup(idx, id) ==
    IF id \in DOMAIN idx THEN [kind |-> "index", at |-> idx[id]]
    ELSE IF id.kind \in {"proto", "dunder"} THEN [kind |-> "inherited", at |-> 0]
    ELSE [kind |-> "undefined", at |-> 0]

\* lines 64-71: one iteration of rightCopy.forEach
\*   existingIdx !== undefined  -> merged[existingIdx] = m
\*   otherwise                  -> merged.push(m)
\* Assigning merged[f] for a function or an object f sets a property that is
\* not an array index: the elements of the array stay as they are.
\* MergeOne with a slip: the index is not consulted, every message is pushed.
MergeOneAlwaysPush(acc, idx, m) == Append(acc, m)

MergeOne(acc, idx, m) ==
    LET existingIdx == Lookup(idx, m.id)
    IN  IF existingIdx.kind = "index" THEN [acc EXCEPT ![existingIdx.at] = m]
        ELSE IF existingIdx.kind = "inherited" THEN acc
        ELSE Append(acc, m)

RECURSIVE MergeRight(_, _, _)
MergeRight(acc, idx, rightCopy) ==
    IF rightCopy = <<>> THEN acc
    ELSE MergeRight(MergeOne(acc, idx, Head(rightCopy)), idx, Tail(rightCopy))

\* The whole call.  merged is the returned list; left and right are the
\* caller's lists after the call; counter is the uuid counter after it.
\* objs.left and objs.right name the objects of l and r.
addMessages(l, r, counter, objs) ==
    LET la == AssignMissingIds(l, objs.left, counter, NoObjectHasId)
        ra == AssignMissingIds(r, objs.right, la.counter, la.assigned)
    IN  [merged  |-> MergeRight(la.list, LeftIdxById(la.list), ra.list),
         left    |-> la.list,
         right   |-> ra.list,
         counter |-> ra.counter]

(***************************************************************************)
(* Reducer harness: the reducer is applied to a pair of lists, and then    *)
(* the same right list is delivered a second time to the result.  Of the   *)
(* messages given, at most one object stands at two positions; it is one   *)
(* without id (for an object with an id nothing depends on it).            *)
(***************************************************************************)
Sharings(l, r) ==
    LET c == l \o r
        n == Len(c)
        pairs == {p \in (1..n) \X (1..n) :
                     p[1] < p[2] /\ c[p[1]] = c[p[2]] /\ LacksId(c[p[1]])}
        tags(p) == [k \in 1..n |-> IF k = p[2] THEN p[1] ELSE k]
    IN  {DistinctObjects(l, r)}
          \cup {[left  |-> SubSeq(tags(p), 1, Len(l)),
                 right |-> SubSeq(tags(p), Len(l) + 1, n)] : p \in pairs}

\* The ordinary ids and the contents are interchangeable (the reducer compares
\* ids for equality and never reads a content): of the inputs that differ
\* only by renaming them, the one that names them in order of appearance.
InOrderOfAppearance(l, r) ==
    LET c == l \o r
    IN  /\ \A i \in 1..Len(c) :
              c[i].id = GivenId(2) => \E j \in 1..(i - 1) : c[j].id = GivenId(1)
        /\ \A i \in 1..Len(c) :
              c[i].content = "b" => \E j \in 1..(i - 1) : c[j].content = "a"

InitMerge ==
    /\ EngineOff
    /\ mpc = "input"
    /\ left \in SeqsUpTo(InputMessages, MaxLen)
    /\ right \in SeqsUpTo(InputMessages, MaxLen)
    /\ InOrderOfAppearance(left, right)
    /\ objects \in Sharings(left, right)
    /\ left0 = left
    /\ right0 = right
    /\ merged = <<>>
    /\ replayed = <<>>
    /\ uuidCounter = 0

MergeCall ==
    /\ mpc = "input"
    /\ LET res == addMessages(left, right, uuidCounter, objects)
       IN  /\ merged' = res.merged
           /\ left' = res.left
           /\ right' = res.right
           /\ uuidCounter' = res.counter
    /\ mpc' = "merged"
    /\ UNCHANGED <<left0, right0, replayed, objects>>
    /\ UNCHANGED engineVars

\* Every message has its id by now: nothing depends on the objects shared.
ReplayCall ==
    /\ mpc = "merged"
    /\ LET res == addMessages(merged, right, uuidCounter, DistinctObjects(merged, right))
       IN  /\ replayed' = res.merged
           /\ uuidCounter' = res.counter
    /\ mpc' = "replayed"
    /\ UNCHANGED <<left, right, left0, right0, merged, objects>>
    /\ UNCHANGED engineVars

NextMerge == MergeCall \/ ReplayCall

SpecMerge == InitMerge /\ [][NextMerge]_vars

(***************************************************************************)
(* Node results.  A node either returns a partial state update, or calls   *)
(* interrupt() with no resume value pending (the call does not return), or *)
(* throws.                                                                 *)
(***************************************************************************)
Throws == "__throws__"
EmptyUpdate == [c \in {} |-> Null]
Returns(u) == [kind |-> "update", upd |-> u, payload |-> NoInterrupt]
Interrupts(p) == [kind |-> "interrupt", upd |-> EmptyUpdate, payload |-> p]
NodeThrows == [kind |-> "throw", upd |-> EmptyUpdate, payload |-> NoInterrupt]

\* Messages of the graph states.  role "string" is a bare JavaScript string
\* placed in the messages list (humanInput returns the resume value as is).
Msg(role, content, about, toolCalls) ==
    [role |-> role, content |-> content, about |-> about, tool_calls |-> toolCalls]
HumanMessage(content) == Msg("human", content, "", 0)
SystemMessage(content, about) == Msg("system", content, about, 0)
AIMessage(content, toolCalls) == Msg("ai", content, "", toolCalls)
ToolMessage(content) == Msg("tool", content, "", 0)
BareString(content) == Msg("string", content, "", 0)

Last(seq) == seq[Len(seq)]

(***************************************************************************)
(* multi-agent/hil-assistant.ts                                            *)
(***************************************************************************)
\* State, lines 47-64: channel defaults.
HilDefaults ==
    [messages |-> <<>>, customer_id |-> Null, loaded_memory |-> Null,
     remaining_steps |-> Null]

\* Identifiers the structured extraction can return (line 132), by shape.
Identifiers == {"", "1", "+55", "+00", "a@b", "x@y", "+a@b", "abc"}
IsAllDigits(identifier) == identifier \in {"1"}                    \* /^\d+$/
StartsWithPlus(identifier) == identifier \in {"+55", "+00", "+a@b"}
IncludesAt(identifier) == identifier \in {"a@b", "x@y", "+a@b"}
\* Customer table of the database: Phone -> CustomerId, Email -> CustomerId.
CustomerByPhone == [p \in {"+55"} |-> "2"]
CustomerByEmail == [e \in {"a@b", "+a@b"} |-> "3"]

\* getCustomerIdFromIdentifier without the /^\d+$/ branch: a numeric identifier
\* falls through to the lookups and is not found.
getCustomerIdFromIdentifierNoDigits(identifier, db) ==
    IF db = "down" THEN Throws
    ELSE IF StartsWithPlus(identifier)
         THEN IF identifier \in DOMAIN CustomerByPhone
              THEN CustomerByPhone[identifier] ELSE Null
    ELSE IF IncludesAt(identifier)
         THEN IF identifier \in DOMAIN CustomerByEmail
              THEN CustomerByEmail[identifier] ELSE Null
    ELSE Null

\* getCustomerIdFromIdentifier, lines 95-114.  db = "down" when initializeDb
\* or the query rejects.
getCustomerIdFromIdentifier(identifier, db) ==
    IF db = "down" THEN Throws
    ELSE IF IsAllDigits(identifier) THEN identifier
    ELSE IF StartsWithPlus(identifier)
         THEN IF identifier \in DOMAIN CustomerByPhone
              THEN CustomerByPhone[identifier] ELSE Null
    ELSE IF IncludesAt(identifier)
         THEN IF identifier \in DOMAIN CustomerByEmail
              THEN CustomerByEmail[identifier] ELSE Null
    ELSE Null

\* What the model and the database do during one verifyInfo call.
VerifyOracles ==
    [extract : Identifiers \cup {Throws}, db : {"up", "down"},
     reply : {"ok", Throws}, fallback : {"ok", Throws}]

\* verifyInfo without the try/catch: a failing extraction, lookup or reply is
\* thrown on.
verifyInfoNoCatch(state, o) ==
    IF state.customer_id = Null
    THEN LET customerId ==
                 IF o.extract = Throws THEN Throws
                 ELSE IF o.extract # ""
                      THEN getCustomerIdFromIdentifier(o.extract, o.db)
                      ELSE Null
         IN  IF customerId = Throws THEN NodeThrows
             ELSE IF customerId # Null
                  THEN Returns([customer_id |-> customerId,
                                messages |-> <<SystemMessage("verified", customerId)>>])
             ELSE IF o.reply = Throws THEN NodeThrows
             ELSE Returns([messages |-> <<AIMessage("ask", 0)>>])
    ELSE Returns(EmptyUpdate)

\* verifyInfo without the test of state.customer_id: the customer is looked
\* up on every call.
verifyInfoRechecks(state, o) ==
    LET fallback ==
            IF o.fallback = Throws THEN NodeThrows
            ELSE Returns([messages |-> <<AIMessage("ask", 0)>>])
        customerId ==
            IF o.extract = Throws THEN Throws
            ELSE IF o.extract # ""
                 THEN getCustomerIdFromIdentifier(o.extract, o.db)
                 ELSE Null
    IN  IF customerId = Throws THEN fallback
        ELSE IF customerId # Null
             THEN Returns([customer_id |-> customerId,
                           messages |-> <<SystemMessage("verified", customerId)>>])
        ELSE IF o.reply = Throws THEN fallback
        ELSE Returns([messages |-> <<AIMessage("ask", 0)>>])

\* verifyInfo, lines 117-167.
verifyInfo(state, o) ==
    IF state.customer_id = Null
    THEN LET fallback ==                              \* catch block, lines 157-164
                 IF o.fallback = Throws THEN NodeThrows
                 ELSE Returns([messages |-> <<AIMessage("ask", 0)>>])
             customerId ==                            \* lines 137-140
                 IF o.extract = Throws THEN Throws
                 ELSE IF o.extract # ""
                      THEN getCustomerIdFromIdentifier(o.extract, o.db)
                      ELSE Null
         IN  IF customerId = Throws THEN fallback
             ELSE IF customerId # Null
                  THEN Returns([customer_id |-> customerId,
                                messages |-> <<SystemMessage("verified", customerId)>>])
             ELSE IF o.reply = Throws THEN fallback   \* line 151 is inside the try
             ELSE Returns([messages |-> <<AIMessage("ask", 0)>>])
    ELSE Returns(EmptyUpdate)

HumanInputPrompt == "Please provide your customer information (ID, email, or phone number)."

\* humanInput without the interrupt() call: the node returns at once, with
\* whatever value is at hand, and the graph goes on.
humanInputNoInterrupt(state, resume) ==
    Returns([messages |-> <<BareString(resume)>>])

\* humanInput that drops the value interrupt() returned and hands on its own
\* prompt as the user's message.
humanInputDropsResume(state, resume) ==
    IF resume = NoResume THEN Interrupts(HumanInputPrompt)
    ELSE Returns([messages |-> <<BareString(HumanInputPrompt)>>])

\* humanInput, lines 170-174.  resume is the value interrupt() returns, or
\* NoResume when none is pending.
humanInput(state, resume) ==
    IF resume = NoResume THEN Interrupts(HumanInputPrompt)
    ELSE Returns([messages |-> <<BareString(resume)>>])

\* shouldInterrupt that remembers, outside the state, that the customer was
\* asked: once any session has been suspended for the customer's identifier
\* it answers "continue" whatever the state holds.
shouldInterruptAsksOnce(state) ==
    IF state.customer_id # Null THEN "continue"
    ELSE IF \E s \in Threads : \E i \in 1..Len(trace[s]) : trace[s][i].ev = "suspended"
         THEN "continue"
    ELSE "interrupt"

\* shouldInterrupt with the test the wrong way round.
shouldInterruptInverted(state) ==
    IF state.customer_id = Null THEN "continue" ELSE "interrupt"

\* shouldInterrupt, lines 177-183.
shouldInterrupt(state) ==
    IF state.customer_id # Null THEN "continue" ELSE "interrupt"

\* supervisorPrebuilt, lines 69-75 and 186: the compiled supervisor subgraph
\* used as a node.  It returns its answer as messages, or fails.
SupervisorOracles == {"ok", Throws}
supervisorPrebuilt(state, o) ==
    IF o = Throws THEN NodeThrows
    ELSE Returns([messages |-> <<AIMessage("answer", 0)>>])

\* multiAgentVerify, lines 189-213.
HilNodes == {"verify_info", "human_input", "supervisor"}
HilStart == "verify_info"                                   \* line 196
HilConditional ==                                           \* lines 197-204
    [continue |-> "supervisor", interrupt |-> "human_input"]
\* The edges with the supervisor sent back to verify_info instead of the end.
HilEdgesSupervisorLoops == [human_input |-> "verify_info", supervisor |-> "verify_info"]

HilEdges == [human_input |-> "verify_info", supervisor |-> END]  \* lines 205-206

(***************************************************************************)
(* rag-agents/memory-hil-rag.ts                                            *)
(***************************************************************************)
\* MemoryHILRAGState, lines 41-62: channel defaults.
RagDefaults ==
    [question |-> "", messages |-> <<>>, generation |-> "", documents |-> <<>>,
     attempted_generations |-> 0]

Docs == {"d1", "d2"}
Retrievals == {<<>>, <<"d1">>, <<"d1", "d2">>}   \* what the retriever may return
Generations == {"g1", "g2"}                      \* what the model may answer

\* retrieveDocuments, lines 91-97.  o.documents is what the retriever returns,
\* o.fails says that it rejects instead.
RetrieveOracles == [fails : BOOLEAN, documents : Retrievals]
retrieveDocuments(state, o) ==
    IF o.fails THEN NodeThrows ELSE Returns([documents |-> o.documents])

GenerateResponsePrompt == "Do you have anything else to add that you think is relevant?"

\* generateResponse with the model call placed before interrupt(): the call
\* is made, and can fail, on the first execution too.
generateResponseCallsModelFirst(state, resume, o) ==
    IF o = Throws THEN NodeThrows
    ELSE IF resume = NoResume THEN Interrupts(GenerateResponsePrompt)
    ELSE Returns([generation |-> o,
                  attempted_generations |-> state.attempted_generations + 1])

\* generateResponse, lines 128-153: interrupt() is the first statement.
generateResponse(state, resume, o) ==
    IF resume = NoResume THEN Interrupts(GenerateResponsePrompt)
    ELSE IF o = Throws THEN NodeThrows
    ELSE Returns([generation |-> o,
                  attempted_generations |-> state.attempted_generations + 1])

\* gradeDocuments, lines 178-208.  o.relevant is the set of documents the
\* grader scores as relevant, o.fails says that a grader call fails: the
\* grader is called once per document, so not at all for an empty list.
GradeOracles == [fails : BOOLEAN, relevant : SUBSET Docs]
gradeDocuments(state, o) ==
    IF o.fails /\ state.documents # <<>> THEN NodeThrows
    ELSE Returns([documents |-> SelectSeq(state.documents, LAMBDA d : d \in o.relevant)])

\* decideToGenerate without the test for an empty list.
decideToGenerateAlways(state) == "some relevant"

\* decideToGenerate, lines 210-222.
decideToGenerate(state) ==
    IF Len(state.documents) = 0 THEN "none relevant" ELSE "some relevant"

ATTEMPTED_GENERATION_MAX == 3                    \* line 245

\* gradeHallucinations, lines 247-277.  grade is the grader's answer.
gradeHallucinations(state, grade) ==
    IF grade = Throws THEN Throws
    ELSE IF grade = "grounded" THEN "supported"
    ELSE IF state.attempted_generations >= ATTEMPTED_GENERATION_MAX THEN Throws
    ELSE "not supported"

\* configureMemory recording the answer without the question.
configureMemoryAnswerOnly(state) ==
    Returns([messages |-> <<AIMessage(state.generation, 0)>>,
             attempted_generations |-> 0,
             documents |-> <<>>])

\* configureMemory, lines 283-299.
configureMemory(state) ==
    Returns([messages |-> <<HumanMessage(state.question), AIMessage(state.generation, 0)>>,
             attempted_generations |-> 0,
             documents |-> <<>>])

\* graphBuilder, lines 302-337.
RagNodes == {"retrieve_documents", "generate_response", "grade_documents",
             "configure_memory"}
RagStart == "retrieve_documents"                              \* line 309
RagEdges == [retrieve_documents |-> "grade_documents",        \* line 310
             configure_memory |-> END]                        \* line 327
RagAfterGrade ==                                              \* lines 311-318
    [l \in {"some relevant", "none relevant"} |->
        IF l = "some relevant" THEN "generate_response" ELSE END]
RagAfterGenerate ==                                           \* lines 319-326
    [l \in {"supported", "not supported"} |->
        IF l = "supported" THEN "configure_memory" ELSE "generate_response"]

(***************************************************************************)
(* rag-agents/corrective-rag.ts (part_003): the same pipeline without      *)
(* messages, without interrupt and without configure_memory.               *)
(***************************************************************************)
\* CorrectiveRAGState, lines 27-44: channel defaults, every reducer overwrites.
CorrectiveDefaults ==
    [question |-> "", generation |-> "", documents |-> <<>>,
     attempted_generations |-> 0]

\* retrieveDocuments, part_003 lines 57-63.
CorrectiveRetrieveDocuments(state, o) ==
    IF o.fails THEN NodeThrows ELSE Returns([documents |-> o.documents])

\* generateResponse with the attempt left uncounted.
CorrectiveGenerateResponseUncounted(state, o) ==
    IF o = Throws THEN NodeThrows
    ELSE Returns([generation |-> o,
                  attempted_generations |-> state.attempted_generations])

\* generateResponse, part_003 lines 65-82: no interrupt, the model is called
\* at once.
CorrectiveGenerateResponse(state, o) ==
    IF o = Throws THEN NodeThrows
    ELSE Returns([generation |-> o,
                  attempted_generations |-> state.attempted_generations + 1])

\* gradeDocuments, part_003 lines 116-143.
CorrectiveGradeDocuments(state, o) ==
    IF o.fails /\ state.documents # <<>> THEN NodeThrows
    ELSE Returns([documents |-> SelectSeq(state.documents, LAMBDA d : d \in o.relevant)])

\* decideToGenerate, part_003 lines 150-162.
CorrectiveDecideToGenerate(state) ==
    IF Len(state.documents) = 0 THEN "none relevant" ELSE "some relevant"

CORRECTIVE_ATTEMPTED_GENERATION_MAX == 3         \* part_003 line 195

\* gradeHallucinations, part_003 lines 205-235.
CorrectiveGradeHallucinations(state, grade) ==
    IF grade = Throws THEN Throws
    ELSE IF grade = "grounded" THEN "supported"
    ELSE IF state.attempted_generations >= CORRECTIVE_ATTEMPTED_GENERATION_MAX THEN Throws
    ELSE "not supported"

\* graphBuilder, part_003 lines 238-263; compiled without a checkpointer.
CorrectiveNodes == {"retrieve_documents", "generate_response", "grade_documents"}
CorrectiveStart == "retrieve_documents"                       \* line 244
CorrectiveEdges == [retrieve_documents |-> "grade_documents"] \* line 245
CorrectiveAfterGrade ==                                       \* lines 246-253
    [l \in {"some relevant", "none relevant"} |->
        IF l = "some relevant" THEN "generate_response" ELSE END]
CorrectiveAfterGenerate ==                                    \* lines 254-261
    [l \in {"supported", "not supported"} |->
        IF l = "supported" THEN END ELSE "generate_response"]

(***************************************************************************)
(* multi-agent/music-subagent.ts                                           *)
(***************************************************************************)
\* MusicAgentState, lines 36-53: channel defaults.
MusicDefaults ==
    [messages |-> <<>>, customer_id |-> Null, loaded_memory |-> Null,
     remaining_steps |-> Null]

\* musicAssistant, lines 191-237.  o is what the model answers: a tool call,
\* a final answer, or a failure.
MusicOracles == {"tool call", "answer", Throws}
musicAssistant(state, o) ==
    IF o = Throws THEN NodeThrows
    ELSE IF o = "tool call" THEN Returns([messages |-> <<AIMessage("call", 1)>>])
    ELSE Returns([messages |-> <<AIMessage("answer", 0)>>])

\* musicToolNode, line 188: the prebuilt ToolNode answers the tool calls of the
\* last message with tool messages.
musicToolNode(state) ==
    Returns([messages |-> <<ToolMessage("result")>>])

\* shouldContinue that counts the tool calls of whatever message is last and
\* names its other label "finish".
shouldContinueUndeclared(state) ==
    LET lastMessage == Last(state.messages)
    IN  IF lastMessage.tool_calls > 0 THEN "continue" ELSE "finish"

\* shouldContinue, lines 253-265.
shouldContinue(state) ==
    LET lastMessage == Last(state.messages)
    IN  IF lastMessage.role = "ai" /\ lastMessage.tool_calls > 0
        THEN "continue" ELSE "end"

\* musicWorkflow, lines 268-285.
MusicNodes == {"music_assistant", "music_tool_node"}
MusicStart == "music_assistant"                               \* line 274
MusicConditional ==                                           \* lines 275-282
    [l \in {"continue", "end"} |-> IF l = "continue" THEN "music_tool_node" ELSE END]
\* The edge out of the tool node wired to the end instead of the assistant.
MusicEdgesToolToEnd == [music_tool_node |-> END]

MusicEdges == [music_tool_node |-> "music_assistant"]         \* line 283

(***************************************************************************)
(* multi-agent/memory-assistant.ts (part_001, lines 140-361) with the       *)
(* state of assistant-agent.ts (part_001, lines 77-94)                      *)
(***************************************************************************)
\* SupervisorState, lines 77-94: channel defaults.
MemDefaults ==
    [messages |-> <<>>, customer_id |-> Null, loaded_memory |-> Null,
     remaining_steps |-> Null]

\* What addMessages reads as m.id on a string primitive: undefined, which as a
\* key of leftIdxById is the property "undefined".
UndefinedId == [kind |-> "undefined", n |-> 0]
IsBareString(m) == m.role = "string"

\* A message of a node's update as the reducer receives it: a message object
\* built by a node has no id yet, a string has none at all.
WithId(m, id) ==
    [id |-> id, role |-> m.role, content |-> m.content, about |-> m.about,
     tool_calls |-> m.tool_calls]
Incoming(update) ==
    [i \in 1..Len(update) |->
        IF "id" \in DOMAIN update[i] THEN update[i]
        ELSE WithId(update[i], IF IsBareString(update[i]) THEN UndefinedId ELSE NoId)]

\* uuidv4() values already present in a list: the next ones differ from them.
UuidsUsed(list) ==
    LET ns == {list[i].id.n : i \in {j \in 1..Len(list) : list[j].id.kind = "uuid"}}
    IN  IF ns = {} THEN 0 ELSE CHOOSE n \in ns : \A k \in ns : k <= n

\* addMessages as the reducer of SupervisorState.messages (line 79), lines
\* 47-56: m.id = uuidv4() on a string primitive.  In strict-mode code the
\* assignment throws a TypeError; in sloppy-mode code it does nothing and the
\* string goes on with the id undefined.
addMessagesThrows(current, update) ==
    /\ strict
    /\ \/ \E i \in 1..Len(current) : IsBareString(current[i])
       \/ \E i \in 1..Len(update) : IsBareString(update[i])
\* uuidv4() answers with an id no message carries: the ids handed out are
\* numbered after those of both lists.
addMessagesReducer(current, update) ==
    addMessages(current, Incoming(update), UuidsUsed(current \o Incoming(update)),
                DistinctObjects(current, Incoming(update))).merged

\* The long-term memory store (line 165): namespace [userId, "memory_profile"],
\* key "user_memory".  The store is a function from the user ids that have an
\* item to the item's value.
\* The profile's own customer_id field is whatever the model answers and is
\* read by no code; one value stands for it.
Preferences == {<<>>, <<"rock", "jazz">>}
UserProfiles == [customer_id : {"1"}, music_preferences : Preferences]
NoProfile == [customer_id |-> Null, music_preferences |-> <<>>]
\* store.get that leaves the customer out of the namespace: any stored
\* profile answers.
StoreGetAnyNamespace(st, userId) ==
    IF DOMAIN st # {}
    THEN [found |-> TRUE, value |-> st[CHOOSE k \in DOMAIN st : TRUE]]
    ELSE [found |-> FALSE, value |-> NoProfile]

StoreGet(st, userId) ==                       \* store.get(namespace, "user_memory")
    IF userId \in DOMAIN st THEN [found |-> TRUE, value |-> st[userId]]
    ELSE [found |-> FALSE, value |-> NoProfile]
\* store.put that keeps nothing but the item it writes.
StorePutAlone(st, userId, profile) == [k \in {userId} |-> profile]

StorePut(st, userId, profile) ==              \* store.put(namespace, "user_memory", v)
    [k \in DOMAIN st \cup {userId} |-> IF k = userId THEN profile ELSE st[k]]

RECURSIVE JoinComma(_)
JoinComma(list) ==                            \* list.join(', ')
    IF list = <<>> THEN ""
    ELSE IF Len(list) = 1 THEN list[1]
    ELSE list[1] \o ", " \o JoinComma(Tail(list))

\* formatUserMemory with a slip: neither the absent profile nor the empty
\* list of preferences is set apart.
formatUserMemoryUnguarded(item) ==
    "Music Preferences: " \o JoinComma(item.value.music_preferences)

\* formatUserMemory, lines 182-188.  item is what the caller found in the store.
formatUserMemory(item) ==
    IF ~item.found THEN ""
    ELSE IF Len(item.value.music_preferences) > 0
         THEN "Music Preferences: " \o JoinComma(item.value.music_preferences)
    ELSE ""

\* loadMemory from line 197 on, after "await store.get" (line 196) has
\* answered with existingMemory.
loadMemoryAfterGet(state, existingMemory) ==
    Returns([loaded_memory |-> formatUserMemory(existingMemory)])

\* loadMemory, lines 191-205, with nothing happening at its await.
loadMemory(state, st) ==
    IF state.customer_id = Null THEN Returns([loaded_memory |-> ""])
    ELSE loadMemoryAfterGet(state, StoreGet(st, state.customer_id))

\* createOrUpdateMemory, lines 246-278.  o is the profile the model returns, or
\* its failure.  The result is what the node returns, the store after it, and
\* the memory_profile text the prompt was given (the baseline).
ProfileOracles == [fails : BOOLEAN, profile : UserProfiles]
\* createOrUpdateMemory from line 252 on, after "await store.get" has
\* answered with existingMemory: the prompt is built from it, the model is
\* awaited and the answer is put into the store as it is by then (st).
createOrUpdateMemoryAfterGet(state, st, existingMemory, o) ==
    LET existing == formatUserMemory(existingMemory)
    IN  IF o.fails THEN [out |-> NodeThrows, store |-> st, baseline |-> existing]
        ELSE [out |-> Returns([loaded_memory |->
                         formatUserMemory([found |-> TRUE, value |-> o.profile])]),
              store |-> StorePut(st, state.customer_id, o.profile),
              baseline |-> existing]

\* The whole call with nothing happening in between its awaits.
createOrUpdateMemory(state, st, o) ==
    IF state.customer_id = Null
    THEN [out |-> Returns(EmptyUpdate), store |-> st, baseline |-> ""]
    ELSE createOrUpdateMemoryAfterGet(state, st, StoreGet(st, state.customer_id), o)

\* The edges with supervisor wired to the end: create_memory is left out.
MemEdgesSkipCreate ==
    [human_input |-> "verify_info", load_memory |-> "supervisor",
     supervisor |-> END, create_memory |-> END]

\* multiAgentMemory, lines 285-313.
MemNodes == {"verify_info", "human_input", "load_memory", "supervisor", "create_memory"}
MemStart == "verify_info"                                   \* line 294
MemConditional ==                                           \* lines 295-302
    [continue |-> "load_memory", interrupt |-> "human_input"]
MemEdges ==                                                 \* lines 303-306
    [human_input |-> "verify_info", load_memory |-> "supervisor",
     supervisor |-> "create_memory", create_memory |-> END]

(***************************************************************************)
(* The compiled graphs                                                     *)
(***************************************************************************)
Graphs == {"hil", "rag", "music", "mem"}

Defaults(g) ==
    CASE g = "hil" -> HilDefaults
      [] g = "rag" -> RagDefaults
      [] g = "music" -> MusicDefaults
      [] g = "mem" -> MemDefaults
      [] g = "crag" -> CorrectiveDefaults

StartNode(g) ==
    CASE g = "hil" -> HilStart
      [] g = "rag" -> RagStart
      [] g = "music" -> MusicStart
      [] g = "mem" -> MemStart
      [] g = "crag" -> CorrectiveStart

\* Every graph compiled like the music graph, without a checkpointer.
HasCheckpointerNever(g) == FALSE

\* compile({ checkpointer: memory }): hil-assistant.ts 209-213,
\* memory-hil-rag.ts 336-337 and part_001 309-313; music-subagent.ts 285
\* compiles without one.
HasCheckpointer(g) == g \in {"hil", "rag", "mem"}

\* The reducers of the channels: messages appends (hil-assistant.ts 49,
\* memory-hil-rag.ts 47, music-subagent.ts 38), every other channel takes the
\* update.
\* Every channel given the overwriting reducer, messages included.
ReducerOverwritesAll(g, channel, current, update) == update

Reducer(g, channel, current, update) ==
    IF channel = "messages"
    THEN IF g = "mem" THEN addMessagesReducer(current, update)   \* part_001 line 79
         ELSE current \o update
    ELSE update

\* A reducer that throws instead of returning.
ReducerThrows(g, channel, current, update) ==
    g = "mem" /\ channel = "messages" /\ addMessagesThrows(current, update)

\* The label a conditional edge's mapping sends on, or UnknownRoute.
UnknownRoute == "__unknown_route__"
Target(mapping, label) ==
    IF label = Throws THEN Throws
    ELSE IF label \in DOMAIN mapping THEN mapping[label]
    ELSE UnknownRoute

\* The nodes a conditional edge leaves (addConditionalEdges: hil-assistant.ts
\* 197, part_001 295, music-subagent.ts 275, memory-hil-rag.ts 311 and 319,
\* part_003 246 and 254).
ConditionalNodes(g) ==
    CASE g \in {"hil", "mem"} -> {"verify_info"}
      [] g \in {"rag", "crag"} -> {"grade_documents", "generate_response"}
      [] g = "music" -> {"music_assistant"}

\* The node that follows `node` in graph g, for the state the step produced.
\* grade is the hallucination grader's answer, read by gradeHallucinations only.
RouteAfter(g, node, state, grade) ==
    CASE g = "hil" /\ node = "verify_info" -> Target(HilConditional, shouldInterrupt(state))
      [] g = "hil" /\ node # "verify_info" -> HilEdges[node]
      [] g = "rag" /\ node = "grade_documents" -> Target(RagAfterGrade, decideToGenerate(state))
      [] g = "rag" /\ node = "generate_response" ->
            Target(RagAfterGenerate, gradeHallucinations(state, grade))
      [] g = "rag" /\ node \notin {"grade_documents", "generate_response"} -> RagEdges[node]
      [] g = "music" /\ node = "music_assistant" -> Target(MusicConditional, shouldContinue(state))
      [] g = "music" /\ node # "music_assistant" -> MusicEdges[node]
      [] g = "mem" /\ node = "verify_info" -> Target(MemConditional, shouldInterrupt(state))
      [] g = "mem" /\ node # "verify_info" -> MemEdges[node]
      [] g = "crag" /\ node = "grade_documents" ->
            Target(CorrectiveAfterGrade, CorrectiveDecideToGenerate(state))
      [] g = "crag" /\ node = "generate_response" ->
            Target(CorrectiveAfterGenerate, CorrectiveGradeHallucinations(state, grade))
      [] g = "crag" /\ node = "retrieve_documents" -> CorrectiveEdges[node]

\* The conditional edges of a graph: the label the routing function of the
\* edge that leaves `node` returns for a state (and a grader decision, read by
\* gradeHallucinations only), and the edge's mapping from labels to nodes.
RoutingLabel(g, node, state, grade) ==
    CASE g \in {"hil", "mem"} -> shouldInterrupt(state)
      [] g = "music" -> shouldContinue(state)
      [] g = "rag" /\ node = "grade_documents" -> decideToGenerate(state)
      [] g = "rag" /\ node = "generate_response" -> gradeHallucinations(state, grade)
      [] g = "crag" /\ node = "grade_documents" -> CorrectiveDecideToGenerate(state)
      [] g = "crag" /\ node = "generate_response" ->
            CorrectiveGradeHallucinations(state, grade)
RoutingMapping(g, node) ==
    CASE g = "hil" -> HilConditional
      [] g = "mem" -> MemConditional
      [] g = "music" -> MusicConditional
      [] g = "rag" /\ node = "grade_documents" -> RagAfterGrade
      [] g = "rag" /\ node = "generate_response" -> RagAfterGenerate
      [] g = "crag" /\ node = "grade_documents" -> CorrectiveAfterGrade
      [] g = "crag" /\ node = "generate_response" -> CorrectiveAfterGenerate

\* What a caller passes to invoke: hil-assistant.ts 242, memory-hil-rag.ts 356,
\* music-subagent.ts 290.
InvokeInputs(g) ==
    CASE g = "hil" -> {[messages |-> <<HumanMessage("q1")>>]}
      [] g = "rag" -> {[question |-> "q1"], [question |-> "q2"]}
      [] g = "music" -> {[messages |-> <<HumanMessage("q1")>>]}
      [] g = "mem" -> {[messages |-> <<HumanMessage("q1")>>]}
      [] g = "crag" -> {[question |-> "q1"], [question |-> "q2"]}   \* part_003 268

\* What a caller passes to Command({ resume }): hil-assistant.ts 245-246,
\* memory-hil-rag.ts 367.
ResumeValues == {"r1", "r2"}

(***************************************************************************)
(* The scheduler, the checkpoint store and the interrupt/resume protocol   *)
(* (sections 4.4 - 4.6 and 6 of the specification of the engine).          *)
(***************************************************************************)
\* A channel without an incoming update is left unchanged; a touched channel
\* goes through its reducer.
\* A merge that puts every channel the update does not name back to its
\* default.
ApplyUpdateResetsAbsent(g, state, upd) ==
    [c \in DOMAIN state |->
        IF c \in DOMAIN upd THEN Reducer(g, c, state[c], upd[c]) ELSE Defaults(g)[c]]

ApplyUpdate(g, state, upd) ==
    [c \in DOMAIN state |->
        IF c \in DOMAIN upd THEN Reducer(g, c, state[c], upd[c]) ELSE state[c]]

\* Some touched channel's reducer throws: the update is not merged.
UpdateThrows(g, state, upd) ==
    \E c \in DOMAIN upd \cap DOMAIN state : ReducerThrows(g, c, state[c], upd[c])

HasLatest(s) == Len(ckpts[s]) > 0
Latest(s) == Last(ckpts[s])

\* A store that keeps one checkpoint per session and writes over it.
PersistOverwrite(s, state, next, payload) ==
    IF HasCheckpointer(graph)
    THEN ckpts' = [ckpts EXCEPT ![s] =
                      <<[step |-> 1, values |-> state,
                         next |-> next, interrupt |-> payload]>>]
    ELSE UNCHANGED ckpts

\* append(checkpoint): the whole checkpoint is recorded at once.
Persist(s, state, next, payload) ==
    IF HasCheckpointer(graph)
    THEN ckpts' = [ckpts EXCEPT ![s] =
                      Append(@, [step |-> Len(@) + 1, values |-> state,
                                 next |-> next, interrupt |-> payload])]
    ELSE UNCHANGED ckpts

Event(node, ev) == [node |-> node, ev |-> ev]
Record(s, node, ev) == trace' = [trace EXCEPT ![s] = Append(@, Event(node, ev))]

\* Index of the event that started the run in progress (or the last run), and
\* the call (invoke or resume) that started it: a run answers that call.
RunStart(tr) ==
    IF \E i \in 1..Len(tr) : tr[i].ev \in {"invoke", "resume"}
    THEN CHOOSE i \in 1..Len(tr) :
            /\ tr[i].ev \in {"invoke", "resume"}
            /\ \A j \in (i + 1)..Len(tr) : tr[j].ev \notin {"invoke", "resume"}
    ELSE 0
EventsInRun(tr, kinds) ==
    {i \in (RunStart(tr) + 1)..Len(tr) : tr[i].ev \in kinds}
RunOp(s) == trace[s][RunStart(trace[s])].ev

Outcome(op, s, outcome, payload, state, next) ==
    [op |-> op, thread |-> s, outcome |-> outcome, payload |-> payload,
     values |-> state, next |-> next]

\* The calls a behaviour may still make.  MaxCalls bounds the calls made with
\* one session; a driver that runs a further session (trajectory.ts lines
\* 168-176 run several, each invoked at line 86 and resumed at lines 97-100)
\* has one call more for each, so that both sessions can be invoked and
\* resumed.
CallsMade == calls["t1"] + calls["t2"]
CallsLeft ==
    CallsMade < MaxCalls + Cardinality({s \in Threads \ Clients : status[s] # "absent"})

\* invoke(session, input) with a step budget n: load the latest checkpoint or
\* start from the channel defaults at the start node, and merge the input
\* through the reducers.
Invoke(s, input, n) ==
    /\ status[s] # "running"
    /\ CallsLeft
    /\ LET base == IF HasLatest(s) THEN Latest(s).values ELSE Defaults(graph)
           node == IF HasLatest(s) /\ Latest(s).next # END
                   THEN Latest(s).next ELSE StartNode(graph)
       IN  /\ values' = [values EXCEPT ![s] = ApplyUpdate(graph, base, input)]
           /\ cur' = [cur EXCEPT ![s] = node]
           /\ Record(s, node, "invoke")
    /\ status' = [status EXCEPT ![s] = "running"]
    /\ budget' = [budget EXCEPT ![s] = n]
    /\ runBudget' = [runBudget EXCEPT ![s] = n]
    /\ resumeVal' = [resumeVal EXCEPT ![s] = NoResume]
    /\ result' = Outcome("invoke", s, "pending", NoInterrupt, NoState, END)
    /\ calls' = [calls EXCEPT ![s] = @ + 1]
    /\ UNCHANGED ckpts
    /\ routings' = {r \in routings : r.thread # s}
    /\ UNCHANGED <<graph, strict, waiting, store, memRead, mergeVars>>

\* resume on an unknown session that behaves like invoke: it creates the
\* session at the start node.
ResumeUnknownSessionStartsFresh(s, v) ==
    /\ status[s] # "running"
    /\ CallsLeft
    /\ ~HasLatest(s)
    /\ values' = [values EXCEPT ![s] = Defaults(graph)]
    /\ cur' = [cur EXCEPT ![s] = StartNode(graph)]
    /\ status' = [status EXCEPT ![s] = "running"]
    /\ budget' = [budget EXCEPT ![s] = 1]
    /\ runBudget' = [runBudget EXCEPT ![s] = 1]
    /\ resumeVal' = [resumeVal EXCEPT ![s] = v]
    /\ Record(s, StartNode(graph), "resume")
    /\ result' = Outcome("resume", s, "pending", NoInterrupt, NoState, END)
    /\ calls' = [calls EXCEPT ![s] = @ + 1]
    /\ UNCHANGED ckpts
    /\ routings' = {r \in routings : r.thread # s}
    /\ UNCHANGED <<graph, strict, store, memRead, mergeVars>>
    /\ waiting' = [waiting EXCEPT ![s] = @ \ {v}]

\* resume(session, value) on a session without checkpoints.
ResumeUnknownSession(s, v) ==
    /\ status[s] # "running"
    /\ CallsLeft
    /\ ~HasLatest(s)
    /\ result' = Outcome("resume", s, "UnknownSessionError", NoInterrupt, NoState, END)
    /\ calls' = [calls EXCEPT ![s] = @ + 1]
    /\ UNCHANGED <<ckpts, status, values, cur, budget, resumeVal,
                   runBudget, trace>>
    /\ UNCHANGED <<graph, strict, store, memRead, routings, mergeVars>>
    /\ waiting' = [waiting EXCEPT ![s] = @ \ {v}]

\* resume without the pending-payload check: the run is silently started again
\* from the latest checkpoint.
ResumeWithoutSuspensionReruns(s, v) ==
    /\ status[s] # "running"
    /\ CallsLeft
    /\ HasLatest(s)
    /\ Latest(s).interrupt = NoInterrupt
    /\ values' = [values EXCEPT ![s] = Latest(s).values]
    /\ cur' = [cur EXCEPT ![s] =
                  IF Latest(s).next = END THEN StartNode(graph) ELSE Latest(s).next]
    /\ status' = [status EXCEPT ![s] = "running"]
    /\ budget' = [budget EXCEPT ![s] = 1]
    /\ runBudget' = [runBudget EXCEPT ![s] = 1]
    /\ resumeVal' = [resumeVal EXCEPT ![s] = v]
    /\ Record(s, cur'[s], "resume")
    /\ result' = Outcome("resume", s, "pending", NoInterrupt, NoState, END)
    /\ calls' = [calls EXCEPT ![s] = @ + 1]
    /\ UNCHANGED ckpts
    /\ routings' = {r \in routings : r.thread # s}
    /\ UNCHANGED <<graph, strict, store, memRead, mergeVars>>
    /\ waiting' = [waiting EXCEPT ![s] = @ \ {v}]

\* resume(session, value) on a session whose latest checkpoint has no pending
\* interrupt payload.
ResumeWithoutSuspension(s, v) ==
    /\ status[s] # "running"
    /\ CallsLeft
    /\ HasLatest(s)
    /\ Latest(s).interrupt = NoInterrupt
    /\ result' = Outcome("resume", s, "ResumeWithoutSuspensionError", NoInterrupt, NoState, END)
    /\ calls' = [calls EXCEPT ![s] = @ + 1]
    /\ UNCHANGED <<ckpts, status, values, cur, budget, resumeVal,
                   runBudget, trace>>
    /\ UNCHANGED <<graph, strict, store, memRead, routings, mergeVars>>
    /\ waiting' = [waiting EXCEPT ![s] = @ \ {v}]

\* resume that does not wait for the run in progress on the session: a second
\* resume is accepted while the first is still running.
ResumeUnserialized(s, v, n) ==
    /\ CallsLeft
    /\ HasLatest(s)
    /\ Latest(s).interrupt # NoInterrupt
    /\ values' = [values EXCEPT ![s] = Latest(s).values]
    /\ cur' = [cur EXCEPT ![s] = Latest(s).next]
    /\ resumeVal' = [resumeVal EXCEPT ![s] = v]
    /\ status' = [status EXCEPT ![s] = "running"]
    /\ budget' = [budget EXCEPT ![s] = n]
    /\ runBudget' = [runBudget EXCEPT ![s] = n]
    /\ Record(s, Latest(s).next, "resume")
    /\ result' = Outcome("resume", s, "pending", NoInterrupt, NoState, END)
    /\ calls' = [calls EXCEPT ![s] = @ + 1]
    /\ UNCHANGED ckpts
    /\ routings' = {r \in routings : r.thread # s}
    /\ UNCHANGED <<graph, strict, store, memRead, mergeVars>>
    /\ waiting' = [waiting EXCEPT ![s] = @ \ {v}]

\* resume(session, value) on a suspended session, with a step budget n: the
\* suspending node is invoked again and its interrupt() call returns v.
\* A call that was waiting is taken up (it waits no longer).
Resume(s, v, n) ==
    /\ status[s] # "running"
    /\ CallsLeft
    /\ HasLatest(s)
    /\ Latest(s).interrupt # NoInterrupt
    /\ values' = [values EXCEPT ![s] = Latest(s).values]
    /\ cur' = [cur EXCEPT ![s] = Latest(s).next]
    /\ resumeVal' = [resumeVal EXCEPT ![s] = v]
    /\ status' = [status EXCEPT ![s] = "running"]
    /\ budget' = [budget EXCEPT ![s] = n]
    /\ runBudget' = [runBudget EXCEPT ![s] = n]
    /\ Record(s, Latest(s).next, "resume")
    /\ result' = Outcome("resume", s, "pending", NoInterrupt, NoState, END)
    /\ calls' = [calls EXCEPT ![s] = @ + 1]
    /\ UNCHANGED ckpts
    /\ routings' = {r \in routings : r.thread # s}
    /\ UNCHANGED <<graph, strict, store, memRead, mergeVars>>
    /\ waiting' = [waiting EXCEPT ![s] = @ \ {v}]

\* get_state(session): the latest checkpoint, read only.
GetState(s) ==
    /\ status[s] # "running"
    /\ CallsLeft
    /\ result' = IF HasLatest(s)
                 THEN Outcome("getState", s, "StateSnapshot", Latest(s).interrupt,
                              Latest(s).values, Latest(s).next)
                 ELSE Outcome("getState", s, "UnknownSessionError", NoInterrupt, NoState, END)
    /\ calls' = [calls EXCEPT ![s] = @ + 1]
    /\ UNCHANGED <<ckpts, status, values, cur, budget, resumeVal,
                   runBudget, trace>>
    /\ UNCHANGED <<graph, strict, waiting, store, memRead, routings, mergeVars>>

\* The process is restarted while a session is suspended and none is running.
\* Everything the graphs keep is built in process memory when their modules
\* are loaded: the checkpointer is `new MemorySaver()` (part_001 line 309,
\* hil-assistant.ts 209, memory-hil-rag.ts 336) and the long-term memory is
\* `new InMemoryStore()` (part_001 line 165).  After the restart both are new
\* and empty: no session has a checkpoint, every session is absent, no call
\* has been made on the new process.  Of the sessions of before the history
\* keeps, for each that was suspended, the node the restart left it at.  A
\* behaviour has one restart.
Restarted ==
    \E s \in Threads : \E i \in 1..Len(trace[s]) : trace[s][i].ev = "restart"
Restart ==
    /\ \E s \in Threads : status[s] = "suspended"
    /\ \A s \in Threads : status[s] # "running"
    /\ ~Restarted
    /\ ckpts' = [s \in Threads |-> <<>>]
    /\ status' = [s \in Threads |-> "absent"]
    /\ values' = [s \in Threads |-> NoState]
    /\ cur' = [s \in Threads |-> END]
    /\ budget' = [s \in Threads |-> 0]
    /\ runBudget' = [s \in Threads |-> 0]
    /\ resumeVal' = [s \in Threads |-> NoResume]
    /\ calls' = [s \in Threads |-> 0]
    /\ trace' = [s \in Threads |->
                    IF status[s] = "suspended"
                    THEN <<Event(cur[s], "restart")>>
                    ELSE <<>>]
    /\ result' = [op |-> "none"]
    /\ store' = <<>>
    /\ memRead' = [s \in Threads |-> NotRead]
    /\ routings' = {}
    /\ waiting' = [s \in Threads |-> {}]
    /\ UNCHANGED <<graph, strict, mergeVars>>

\* The node asked for suspension: a checkpoint with the payload and the node
\* itself as next node, nothing merged, the budget as it was.
\* A suspension recorded with the terminal marker as the place to go on from.
SuspendPointsToEnd(s, node, payload) ==
    /\ Persist(s, values[s], END, payload)
    /\ status' = [status EXCEPT ![s] = "suspended"]
    /\ result' = Outcome(RunOp(s), s, "Interrupt", payload, values[s], END)
    /\ Record(s, node, "suspended")
    /\ UNCHANGED <<values, cur, budget, resumeVal, calls, runBudget>>
    /\ UNCHANGED <<graph, strict, waiting, mergeVars>>

Suspend(s, node, payload) ==
    /\ Persist(s, values[s], node, payload)
    /\ status' = [status EXCEPT ![s] = "suspended"]
    /\ result' = Outcome(RunOp(s), s, "Interrupt", payload, values[s], node)
    /\ Record(s, node, "suspended")
    /\ UNCHANGED <<values, cur, budget, resumeVal, calls, runBudget>>
    /\ UNCHANGED <<graph, strict, waiting, mergeVars>>

\* A failing run that takes the session's checkpoints with it.
FailRunDiscards(s, node, error) ==
    /\ status' = [status EXCEPT ![s] = "halted"]
    /\ result' = Outcome(RunOp(s), s, error, NoInterrupt, NoState, END)
    /\ resumeVal' = [resumeVal EXCEPT ![s] = NoResume]
    /\ Record(s, node, IF error = "RecursionLimitError" THEN "exhausted" ELSE "failed")
    /\ ckpts' = [ckpts EXCEPT ![s] = <<>>]
    /\ UNCHANGED <<values, cur, budget, calls, runBudget>>
    /\ UNCHANGED <<graph, strict, waiting, mergeVars>>

\* The run fails: nothing is merged, nothing is recorded in the store.  The
\* event is "exhausted" when the budget check fails before the node is invoked,
\* "failed" when the node or its routing function was invoked and failed.
FailRun(s, node, error) ==
    /\ status' = [status EXCEPT ![s] = "halted"]
    /\ result' = Outcome(RunOp(s), s, error, NoInterrupt, NoState, END)
    /\ resumeVal' = [resumeVal EXCEPT ![s] = NoResume]
    /\ Record(s, node, IF error = "RecursionLimitError" THEN "exhausted" ELSE "failed")
    /\ UNCHANGED <<ckpts, values, cur, budget, calls, runBudget>>
    /\ UNCHANGED <<graph, strict, waiting, mergeVars>>

\* A completed step that leaves the budget as it was.
CompleteStepKeepsBudget(s, node, state, next) ==
    /\ values' = [values EXCEPT ![s] = state]
    /\ budget' = budget
    /\ Persist(s, state, next, NoInterrupt)
    /\ cur' = [cur EXCEPT ![s] = next]
    /\ resumeVal' = [resumeVal EXCEPT ![s] = NoResume]
    /\ status' = [status EXCEPT ![s] = IF next = END THEN "terminated" ELSE "running"]
    /\ result' = IF next = END
                 THEN Outcome(RunOp(s), s, "FinalState", NoInterrupt, state, END)
                 ELSE result
    /\ Record(s, node, "completed")
    /\ UNCHANGED <<calls, runBudget>>
    /\ UNCHANGED <<graph, strict, waiting, mergeVars>>

\* The node returned an update: merge it, take one step off the budget, record
\* the checkpoint with the next node, and go on (or end at the terminal marker).
CompleteStep(s, node, state, next) ==
    /\ values' = [values EXCEPT ![s] = state]
    /\ budget' = [budget EXCEPT ![s] = @ - 1]
    /\ Persist(s, state, next, NoInterrupt)
    /\ cur' = [cur EXCEPT ![s] = next]
    /\ resumeVal' = [resumeVal EXCEPT ![s] = NoResume]
    /\ status' = [status EXCEPT ![s] = IF next = END THEN "terminated" ELSE "running"]
    /\ result' = IF next = END
                 THEN Outcome(RunOp(s), s, "FinalState", NoInterrupt, state, END)
                 ELSE result
    /\ Record(s, node, "completed")
    /\ UNCHANGED <<calls, runBudget>>
    /\ UNCHANGED <<graph, strict, waiting, mergeVars>>

\* One evaluation of a node: out is what the node function did, grade is read
\* by the routing function of generate_response.
Step(s, node, out, grade) ==
    /\ IF out.kind = "interrupt" THEN Suspend(s, node, out.payload)
       ELSE IF out.kind = "throw" THEN FailRun(s, node, "NodeError")
       ELSE IF UpdateThrows(graph, values[s], out.upd) THEN FailRun(s, node, "ReducerError")
       ELSE LET state == ApplyUpdate(graph, values[s], out.upd)
                next == RouteAfter(graph, node, state, grade)
            IN  IF next = Throws THEN FailRun(s, node, "NodeError")
                ELSE IF next = UnknownRoute THEN FailRun(s, node, "UnknownRouteError")
                ELSE CompleteStep(s, node, state, next)
    /\ routings' =
          IF /\ out.kind = "update"
             /\ ~UpdateThrows(graph, values[s], out.upd)
             /\ node \in ConditionalNodes(graph)
          THEN LET state == ApplyUpdate(graph, values[s], out.upd)
               IN  {r \in routings : r.thread # s \/ r.node # node}
                      \cup {[thread |-> s, node |-> node, state |-> state,
                              grade |-> grade,
                              label |-> RoutingLabel(graph, node, state, grade),
                              next |-> RouteAfter(graph, node, state, grade)]}
          ELSE routings

\* A scheduler that invokes the node without looking at the budget.
RunnableUnchecked(s, node) ==
    /\ status[s] = "running"
    /\ cur[s] = node

\* The budget is checked before a node is invoked.
Runnable(s, node) ==
    /\ status[s] = "running"
    /\ cur[s] = node
    /\ budget[s] > 0

BudgetExhausted(s) ==
    /\ status[s] = "running"
    /\ cur[s] # END
    /\ budget[s] = 0
    /\ FailRun(s, cur[s], "RecursionLimitError")
    /\ UNCHANGED <<store, memRead, routings>>

NoGrade == "__no_grade__"

VerifyInfoStep(s) ==
    /\ Runnable(s, "verify_info")
    /\ \E o \in VerifyOracles : Step(s, "verify_info", verifyInfo(values[s], o), NoGrade)
    /\ UNCHANGED <<store, memRead>>

HumanInputStep(s) ==
    /\ Runnable(s, "human_input")
    /\ Step(s, "human_input", humanInput(values[s], resumeVal[s]), NoGrade)
    /\ UNCHANGED <<store, memRead>>

SupervisorStep(s) ==
    /\ Runnable(s, "supervisor")
    /\ \E o \in SupervisorOracles :
          Step(s, "supervisor", supervisorPrebuilt(values[s], o), NoGrade)
    /\ UNCHANGED <<store, memRead>>

RetrieveDocumentsStep(s) ==
    /\ Runnable(s, "retrieve_documents")
    /\ \E o \in RetrieveOracles :
          Step(s, "retrieve_documents", retrieveDocuments(values[s], o), NoGrade)
    /\ UNCHANGED <<store, memRead>>

GradeDocumentsStep(s) ==
    /\ Runnable(s, "grade_documents")
    /\ \E o \in GradeOracles :
          Step(s, "grade_documents", gradeDocuments(values[s], o), NoGrade)
    /\ UNCHANGED <<store, memRead>>

GenerateResponseStep(s) ==
    /\ Runnable(s, "generate_response")
    /\ \E o \in Generations \cup {Throws}, grade \in {"grounded", "ungrounded", Throws} :
          Step(s, "generate_response",
               generateResponse(values[s], resumeVal[s], o), grade)
    /\ UNCHANGED <<store, memRead>>

ConfigureMemoryStep(s) ==
    /\ Runnable(s, "configure_memory")
    /\ Step(s, "configure_memory", configureMemory(values[s]), NoGrade)
    /\ UNCHANGED <<store, memRead>>

MusicAssistantStep(s) ==
    /\ Runnable(s, "music_assistant")
    /\ \E o \in MusicOracles :
          Step(s, "music_assistant", musicAssistant(values[s], o), NoGrade)
    /\ UNCHANGED <<store, memRead>>

MusicToolNodeStep(s) ==
    /\ Runnable(s, "music_tool_node")
    /\ Step(s, "music_tool_node", musicToolNode(values[s]), NoGrade)
    /\ UNCHANGED <<store, memRead>>

\* The memory nodes are taken await by await: the store is shared by all
\* sessions, and the steps of other sessions can come between one await of a
\* node and the next.
\* load_memory: "await store.get" (line 196), then the return (line 203).
\* What the node returns is what store.get answered, whatever the store holds
\* by the time the step completes.
LoadMemoryGet(s) ==
    /\ Runnable(s, "load_memory")
    /\ ~memRead[s].pending
    /\ values[s].customer_id # Null                         \* line 193
    /\ memRead' = [memRead EXCEPT ![s] =
                      [NotRead EXCEPT !.pending = TRUE,
                                      !.item = StoreGet(store, values[s].customer_id)]]
    /\ UNCHANGED <<graph, strict, waiting, store, ckpts, status, values, cur, budget,
                   resumeVal, result, calls, runBudget, trace, routings, mergeVars>>

LoadMemoryReturn(s) ==
    /\ Runnable(s, "load_memory")
    /\ memRead[s].pending \/ values[s].customer_id = Null
    /\ Step(s, "load_memory",
            IF values[s].customer_id = Null                  \* line 193
            THEN loadMemory(values[s], store)
            ELSE loadMemoryAfterGet(values[s], memRead[s].item),
            NoGrade)
    /\ memRead' = [memRead EXCEPT ![s] = NotRead]
    /\ UNCHANGED store

LoadMemoryStep(s) == LoadMemoryGet(s) \/ LoadMemoryReturn(s)

\* create_memory: "await store.get" (line 251), "await structuredLLM.invoke"
\* (line 270) and "await store.put" (line 275), then the return (line 277).
\* What the model is shown as the existing profile is what store.get
\* returned, whatever the store holds by then.  The profile is in the store,
\* and read by the other sessions, before the step completes, and the store
\* keeps it whatever becomes of the step afterwards.
CreateMemoryGet(s) ==
    /\ Runnable(s, "create_memory")
    /\ ~memRead[s].pending
    /\ values[s].customer_id # Null                         \* line 248
    /\ memRead' = [memRead EXCEPT ![s] =
                      [NotRead EXCEPT !.pending = TRUE,
                                      !.item = StoreGet(store, values[s].customer_id)]]
    /\ UNCHANGED <<graph, strict, waiting, store, ckpts, status, values, cur, budget,
                   resumeVal, result, calls, runBudget, trace, routings, mergeVars>>

\* Lines 252-275: the model answers, or fails and the node throws; the answer
\* is put into the store as it is by then.
CreateMemoryPut(s) ==
    /\ Runnable(s, "create_memory")
    /\ memRead[s].pending /\ ~memRead[s].put
    /\ \E o \in ProfileOracles :
          LET r == createOrUpdateMemoryAfterGet(values[s], store, memRead[s].item, o)
          IN  IF o.fails
              THEN /\ Step(s, "create_memory", r.out, NoGrade)
                   /\ memRead' = [memRead EXCEPT ![s] = NotRead]
                   /\ UNCHANGED store
              ELSE /\ store' = r.store
                   /\ memRead' = [memRead EXCEPT ![s].put = TRUE,
                                                 ![s].profile = o.profile]
                   /\ UNCHANGED <<graph, strict, waiting, ckpts, status, values, cur,
                                  budget, resumeVal, result, calls, runBudget,
                                  trace, routings, mergeVars>>

\* Line 277 (and line 248 for a state without customer_id): the node returns
\* and the step completes.
CreateMemoryReturn(s) ==
    /\ Runnable(s, "create_memory")
    /\ memRead[s].put \/ values[s].customer_id = Null
    /\ Step(s, "create_memory",
            IF values[s].customer_id = Null                  \* line 248
            THEN createOrUpdateMemory(values[s], store,
                                      [fails |-> FALSE, profile |-> memRead[s].profile]).out
            ELSE createOrUpdateMemoryAfterGet(values[s], store, memRead[s].item,
                                      [fails |-> FALSE, profile |-> memRead[s].profile]).out,
            NoGrade)
    /\ memRead' = [memRead EXCEPT ![s] = NotRead]
    /\ UNCHANGED store

CreateMemoryStep(s) ==
    CreateMemoryGet(s) \/ CreateMemoryPut(s) \/ CreateMemoryReturn(s)

\* The reducer harness part of the state when only the graphs run.
MergeOff ==
    /\ mpc = "off"
    /\ left = <<>> /\ right = <<>> /\ left0 = <<>> /\ right0 = <<>>
    /\ merged = <<>> /\ replayed = <<>>
    /\ uuidCounter = 0
    /\ objects = DistinctObjects(<<>>, <<>>)

Init ==
    /\ MergeOff
    /\ graph \in Graphs
    /\ strict \in (IF graph = "mem" THEN BOOLEAN ELSE {TRUE})
    /\ store = <<>>
    /\ memRead = [s \in Threads |-> NotRead]
    /\ ckpts = [s \in Threads |-> <<>>]
    /\ status = [s \in Threads |-> "absent"]
    /\ values = [s \in Threads |-> NoState]
    /\ cur = [s \in Threads |-> END]
    /\ budget = [s \in Threads |-> 0]
    /\ resumeVal = [s \in Threads |-> NoResume]
    /\ result = [op |-> "none"]
    /\ calls = [s \in Threads |-> 0]
    /\ runBudget = [s \in Threads |-> 0]
    /\ trace = [s \in Threads |-> <<>>]
    /\ routings = {}
    /\ waiting = [s \in Threads |-> {}]

\* The step budgets callers give a run: the smallest, one that ends a run
\* part-way, and the largest.
Budgets == {1, 2, MaxBudget}

Next ==
    \/ \E s \in Clients, n \in Budgets :
          \E input \in InvokeInputs(graph) : Invoke(s, input, n)
    \/ \E s \in Threads, v \in ResumeValues, n \in Budgets : Resume(s, v, n)
    \/ \E s \in Threads, v \in ResumeValues : ResumeUnknownSession(s, v)
    \/ \E s \in Threads, v \in ResumeValues : ResumeWithoutSuspension(s, v)
    \/ \E s \in Threads : GetState(s)
    \/ Restart
    \/ \E s \in Threads : VerifyInfoStep(s)
    \/ \E s \in Threads : HumanInputStep(s)
    \/ \E s \in Threads : SupervisorStep(s)
    \/ \E s \in Threads : RetrieveDocumentsStep(s)
    \/ \E s \in Threads : GradeDocumentsStep(s)
    \/ \E s \in Threads : GenerateResponseStep(s)
    \/ \E s \in Threads : ConfigureMemoryStep(s)
    \/ \E s \in Threads : MusicAssistantStep(s)
    \/ \E s \in Threads : MusicToolNodeStep(s)
    \/ \E s \in Threads : LoadMemoryStep(s)
    \/ \E s \in Threads : CreateMemoryStep(s)
    \/ \E s \in Threads : BudgetExhausted(s)

Spec == Init /\ [][Next]_vars

(***************************************************************************)
(* The corrective-RAG graph on its own (part_003): a run is one invoke,    *)
(* nothing is kept between runs.  The budgets leave room for one more      *)
(* generation than the routing allows.                                     *)
(***************************************************************************)
CorrectiveRetrieveStep(s) ==
    /\ graph = "crag"
    /\ Runnable(s, "retrieve_documents")
    /\ \E o \in RetrieveOracles :
          Step(s, "retrieve_documents", CorrectiveRetrieveDocuments(values[s], o), NoGrade)
    /\ UNCHANGED <<store, memRead>>

CorrectiveGradeStep(s) ==
    /\ graph = "crag"
    /\ Runnable(s, "grade_documents")
    /\ \E o \in GradeOracles :
          Step(s, "grade_documents", CorrectiveGradeDocuments(values[s], o), NoGrade)
    /\ UNCHANGED <<store, memRead>>

CorrectiveGenerateStep(s) ==
    /\ graph = "crag"
    /\ Runnable(s, "generate_response")
    /\ \E o \in Generations \cup {Throws}, grade \in {"grounded", "ungrounded", Throws} :
          Step(s, "generate_response", CorrectiveGenerateResponse(values[s], o), grade)
    /\ UNCHANGED <<store, memRead>>

CorrectiveBudgets ==
    {2, CORRECTIVE_ATTEMPTED_GENERATION_MAX + 2, CORRECTIVE_ATTEMPTED_GENERATION_MAX + 3}

InitCorrective ==
    /\ MergeOff
    /\ graph = "crag"
    /\ strict = TRUE
    /\ store = <<>>
    /\ memRead = [s \in Threads |-> NotRead]
    /\ ckpts = [s \in Threads |-> <<>>]
    /\ status = [s \in Threads |-> "absent"]
    /\ values = [s \in Threads |-> NoState]
    /\ cur = [s \in Threads |-> END]
    /\ budget = [s \in Threads |-> 0]
    /\ resumeVal = [s \in Threads |-> NoResume]
    /\ result = [op |-> "none"]
    /\ calls = [s \in Threads |-> 0]
    /\ runBudget = [s \in Threads |-> 0]
    /\ trace = [s \in Threads |-> <<>>]
    /\ routings = {}
    /\ waiting = [s \in Threads |-> {}]

NextCorrective ==
    \/ \E s \in Clients, n \in CorrectiveBudgets :
          \E input \in InvokeInputs(graph) : Invoke(s, input, n)
    \/ \E s \in Clients : CorrectiveRetrieveStep(s)
    \/ \E s \in Clients : CorrectiveGradeStep(s)
    \/ \E s \in Clients : CorrectiveGenerateStep(s)
    \/ \E s \in Clients : BudgetExhausted(s)

SpecCorrective == InitCorrective /\ [][NextCorrective]_vars

(***************************************************************************)
(* The graphs under a scheduler that goes on: the step loop awaits each    *)
(* node and invokes the next one (or fails on the budget) as long as the   *)
(* run has not ended.  Calls of the clients are under no obligation.       *)
(***************************************************************************)
SchedulerStep ==
    \E s \in Threads :
        \/ VerifyInfoStep(s) \/ HumanInputStep(s) \/ SupervisorStep(s)
        \/ graph = "rag" /\ RetrieveDocumentsStep(s)
        \/ graph = "rag" /\ GradeDocumentsStep(s)
        \/ graph = "rag" /\ GenerateResponseStep(s)
        \/ ConfigureMemoryStep(s)
        \/ CorrectiveRetrieveStep(s) \/ CorrectiveGradeStep(s)
        \/ CorrectiveGenerateStep(s)
        \/ MusicAssistantStep(s) \/ MusicToolNodeStep(s)
        \/ LoadMemoryStep(s) \/ CreateMemoryStep(s)
        \/ BudgetExhausted(s)

\* Every graph of the repository that is built from nodes of its own.
InitLive == Init \/ InitCorrective

\* The calls that start a run, and the steps of the runs.
NextLive ==
    \/ \E s \in Clients, n \in {2, MaxBudget} :
          \E input \in InvokeInputs(graph) : Invoke(s, input, n)
    \/ \E s \in Clients, n \in {2, MaxBudget} : Resume(s, "r1", n)
    \/ SchedulerStep

\* Every scheduler step adds an event to the trace of its session or holds
\* what store.get returned.
LiveSpec == InitLive /\ [][NextLive]_vars /\ WF_<<trace, memRead>>(SchedulerStep)

(***************************************************************************)
(* The verification graph of hil-assistant.ts on its own, under a          *)
(* scheduler that goes on.  One pass of the loop and the supervisor take   *)
(* three steps; the callers of the repository pass no recursion limit, so  *)
(* the budgets stand for a limit that is too small (2), just enough (3)    *)
(* and ample (MaxBudget).                                                  *)
(***************************************************************************)
VerificationBudgets == {2, 3, MaxBudget}
InitVerification == Init /\ graph = "hil"

VerificationStep(s) ==
    \/ VerifyInfoStep(s)
    \/ HumanInputStep(s)
    \/ SupervisorStep(s)
    \/ BudgetExhausted(s)

NextVerification ==
    \/ \E s \in Clients, n \in VerificationBudgets :
          \E input \in InvokeInputs(graph) : Invoke(s, input, n)
    \/ \E s \in Clients, v \in ResumeValues, n \in VerificationBudgets : Resume(s, v, n)
    \/ \E s \in Clients : VerifyInfoStep(s)
    \/ \E s \in Clients : HumanInputStep(s)
    \/ \E s \in Clients : SupervisorStep(s)
    \/ \E s \in Clients : BudgetExhausted(s)

\* The step loop goes on for every session whose run has not ended; the
\* callers are under no obligation to call.
SpecVerification ==
    /\ InitVerification
    /\ [][NextVerification]_vars
    /\ \A s \in Clients : WF_trace(VerificationStep(s))

(***************************************************************************)
(* The two retrieval graphs side by side: corrective-rag.ts (part_003)     *)
(* and memory-hil-rag.ts, each with the calls its callers can make.        *)
(***************************************************************************)
RetrievalGraphs == {"rag", "crag"}
InitRetrieval == InitCorrective \/ (Init /\ graph = "rag")

NextRetrieval ==
    \/ \E s \in Clients, n \in (IF graph = "crag" THEN CorrectiveBudgets ELSE Budgets) :
          \E input \in InvokeInputs(graph) : Invoke(s, input, n)
    \/ \E s \in Clients, v \in ResumeValues, n \in Budgets : Resume(s, v, n)
    \/ \E s \in Clients, v \in ResumeValues : ResumeWithoutSuspension(s, v)
    \/ \E s \in Clients : GetState(s)
    \/ Restart
    \/ \E s \in Clients : RetrieveDocumentsStep(s) /\ graph = "rag"
    \/ \E s \in Clients : GradeDocumentsStep(s) /\ graph = "rag"
    \/ \E s \in Clients : GenerateResponseStep(s) /\ graph = "rag"
    \/ \E s \in Clients : ConfigureMemoryStep(s)
    \/ \E s \in Clients : CorrectiveRetrieveStep(s)
    \/ \E s \in Clients : CorrectiveGradeStep(s)
    \/ \E s \in Clients : CorrectiveGenerateStep(s)
    \/ \E s \in Clients : BudgetExhausted(s)

SpecRetrieval == InitRetrieval /\ [][NextRetrieval]_vars

(***************************************************************************)
(* Two sessions on one compiled graph: both thread ids belong to callers   *)
(* and their steps interleave freely (trajectory.ts runs up to four        *)
(* runGraph calls at once on the memory graph, each with its own           *)
(* thread_id; hil-assistant.ts compiles the verification graph with one    *)
(* MemorySaver for all its threads).                                       *)
(***************************************************************************)
PairGraphs == {"hil", "mem"}
InitPair == Init /\ graph \in PairGraphs

\* The two sessions are interchangeable: t1 names the one invoked first.
InvokedInOrder(s) == s = "t1" \/ status["t1"] # "absent"

\* The driver of concurrent sessions (trajectory.ts, runGraph, lines 74-114;
\* hil-assistant.ts, runGraph, lines 542-565): each session has a thread id of
\* its own, is invoked once on a question and, when that run has ended
\* without an error, is resumed once with one fixed answer, whether the run
\* was suspended or has terminated.  A run that fails throws out of runGraph:
\* its session is not resumed.  No recursion limit is passed: the runs have
\* the library's default budget.
DefaultRecursionLimit == 25
DriverResumes(s) ==
    /\ calls[s] = 1
    /\ status[s] \in {"suspended", "terminated"}

NextPair ==
    \/ \E s \in Threads : \E input \in InvokeInputs(graph) :
          /\ calls[s] = 0
          /\ InvokedInOrder(s)
          /\ Invoke(s, input, DefaultRecursionLimit)
    \/ \E s \in Threads : DriverResumes(s) /\ Resume(s, "r1", DefaultRecursionLimit)
    \/ \E s \in Threads : DriverResumes(s) /\ ResumeWithoutSuspension(s, "r1")
    \/ \E s \in Threads : VerifyInfoStep(s)
    \/ \E s \in Threads : HumanInputStep(s)
    \/ \E s \in Threads : SupervisorStep(s)
    \/ \E s \in Threads : LoadMemoryStep(s)
    \/ \E s \in Threads : CreateMemoryStep(s)

SpecPair == InitPair /\ [][NextPair]_vars

(***************************************************************************)
(* Two sessions and a restart of the process: the sessions of SpecPair,    *)
(* the process restarted while one of them is suspended, and a caller that *)
(* kept the thread id of a session of before resuming it on the new        *)
(* process (runGraph itself ends with the process: its thread id is a      *)
(* local constant, trajectory.ts line 76).  The new process is driven as   *)
(* the old one was.                                                        *)
(***************************************************************************)
\* The session was suspended when its process was restarted, and nothing has
\* happened on it since.
SuspendedAtRestart(s) ==
    /\ Len(trace[s]) > 0
    /\ Last(trace[s]).ev = "restart"
ResumesAfterRestart(s) ==
    /\ SuspendedAtRestart(s)
    /\ calls[s] = 0
    /\ ResumeUnknownSession(s, "r1")

NextRestart ==
    \/ NextPair
    \/ Restart
    \/ \E s \in Threads : ResumesAfterRestart(s)

SpecRestart == InitPair /\ [][NextRestart]_vars

(***************************************************************************)
(* Two sessions of one graph with conditional edges, each invoked once on  *)
(* a question and resumed at most once: the same routing function is       *)
(* evaluated in both, on states that may be identical.                     *)
(***************************************************************************)
RoutingGraphs == {"hil", "music", "rag"}
InitRouting == Init /\ graph \in RoutingGraphs

NextRouting ==
    \/ \E s \in Threads : \E input \in InvokeInputs(graph) :
          /\ calls[s] = 0
          /\ InvokedInOrder(s)
          /\ Invoke(s, input, MaxBudget)
    \/ \E s \in Threads, v \in ResumeValues : calls[s] = 1 /\ Resume(s, v, MaxBudget)
    \/ \E s \in Threads : VerifyInfoStep(s)
    \/ \E s \in Threads : HumanInputStep(s)
    \/ \E s \in Threads : SupervisorStep(s)
    \/ \E s \in Threads : RetrieveDocumentsStep(s)
    \/ \E s \in Threads : GradeDocumentsStep(s)
    \/ \E s \in Threads : GenerateResponseStep(s)
    \/ \E s \in Threads : ConfigureMemoryStep(s)
    \/ \E s \in Threads : MusicAssistantStep(s)
    \/ \E s \in Threads : MusicToolNodeStep(s)
    \/ \E s \in Threads : BudgetExhausted(s)

SpecRouting == InitRouting /\ [][NextRouting]_vars

(***************************************************************************)
(* Concurrent resume calls on one session of a graph that suspends.  The   *)
(* session is invoked once; clients then make resume calls on it at any    *)
(* time, also while a run is in progress on it and while another resume    *)
(* call is waiting.  The engine takes a waiting call up when no run is in  *)
(* progress on the session (section 4.5 of the specification of the        *)
(* engine: concurrent resume calls on a session are serialized).  Every    *)
(* run has the default step budget.                                        *)
(***************************************************************************)
ResumeGraphs == {"hil", "rag"}
InitResume == Init /\ graph \in ResumeGraphs

\* A client calls resume(session, v); the call waits to be taken up.
ResumeCalled(s, v) ==
    /\ status[s] # "absent"
    /\ v \notin waiting[s]
    /\ calls[s] + Cardinality(waiting[s]) < MaxCalls
    /\ waiting' = [waiting EXCEPT ![s] = @ \cup {v}]
    /\ UNCHANGED <<graph, strict, store, memRead, ckpts, status, values, cur, budget,
                   resumeVal, result, calls, runBudget, trace, routings, mergeVars>>

NextResume ==
    \/ \E s \in Clients : \E input \in InvokeInputs(graph) :
          calls[s] = 0 /\ Invoke(s, input, DefaultRecursionLimit)
    \/ \E s \in Clients, v \in ResumeValues : ResumeCalled(s, v)
    \/ \E s \in Clients : \E v \in waiting[s] : Resume(s, v, DefaultRecursionLimit)
    \/ \E s \in Clients : \E v \in waiting[s] : ResumeWithoutSuspension(s, v)
    \/ \E s \in Clients : VerifyInfoStep(s)
    \/ \E s \in Clients : HumanInputStep(s)
    \/ \E s \in Clients : SupervisorStep(s)
    \/ \E s \in Clients : RetrieveDocumentsStep(s)
    \/ \E s \in Clients : GradeDocumentsStep(s)
    \/ \E s \in Clients : GenerateResponseStep(s)
    \/ \E s \in Clients : ConfigureMemoryStep(s)

SpecResume == InitResume /\ [][NextResume]_vars

(***************************************************************************)
(* Properties of the message reducer (checked under SpecMerge)            *)
(***************************************************************************)
IdsOf(list) == {list[i].id : i \in 1..Len(list)}
AllCarryId(list) == \A i \in 1..Len(list) : ~LacksId(list[i])
NoneCarriesId(list) == \A i \in 1..Len(list) : LacksId(list[i])
PairwiseDistinctIds(list) ==
    \A i, j \in 1..Len(list) : list[i].id = list[j].id => i = j
ContentsOf(list) == [i \in 1..Len(list) |-> list[i].content]

\* The reference merge of section 4.3: start from L; for each m of R in
\* order, if m.id is indexed for L replace the element at the indexed
\* position, otherwise append m.
RefPosition(l, id) ==
    CHOOSE i \in 1..Len(l) :
        l[i].id = id /\ \A j \in 1..Len(l) : l[j].id = id => j <= i
RECURSIVE RefMerge(_, _, _)
RefMerge(acc, l, r) ==
    IF r = <<>> THEN acc
    ELSE LET m == Head(r)
             step == IF m.id \in IdsOf(l)
                     THEN [acc EXCEPT ![RefPosition(l, m.id)] = m]
                     ELSE Append(acc, m)
         IN  RefMerge(step, l, Tail(r))

\* No id of R reads an inherited property of the index: "__proto__" always
\* does, a name like "constructor" does unless L has it as an id.
NoInheritedName(l, r) ==
    /\ ProtoId \notin IdsOf(r) \ IdsOf(l)
    /\ DunderProtoId \notin IdsOf(r)

\* C1: for any L and R whose messages all carry an identity, addMessages(L, R)
\* equals the reference merge (replace in place when the id is in L, append
\* otherwise).
C1_EqualsReferenceMerge ==
    (mpc # "input" /\ AllCarryId(left0) /\ AllCarryId(right0))
        => merged = RefMerge(left0, left0, right0)

\* C1 restricted to ids that name no inherited object property: holds.
C1_OrdinaryIdsEqualReferenceMerge ==
    (/\ mpc # "input"
     /\ AllCarryId(left0) /\ AllCarryId(right0)
     /\ NoInheritedName(left0, right0))
        => merged = RefMerge(left0, left0, right0)

\* C2: the merge is idempotent under replay: for L and R whose messages all
\* carry an identity, addMessages(addMessages(L, R), R) = addMessages(L, R).
C2_ReplayIdempotent ==
    (mpc = "replayed" /\ AllCarryId(left0) /\ AllCarryId(right0))
        => replayed = merged

\* C2 witness: a replayed merge of identified lists in which one element of R
\* revised an element of L and another was appended.
C2_Witness ==
    /\ mpc = "replayed"
    /\ AllCarryId(left0) /\ AllCarryId(right0)
    /\ \E i \in 1..Len(right0) : right0[i].id \in IdsOf(left0) /\ right0[i] \notin {left0[k] : k \in 1..Len(left0)}
    /\ \E i \in 1..Len(right0) : right0[i].id \notin IdsOf(left0) /\ right0[i].id.kind = "given"
    /\ Len(merged) > Len(left0)

\* C3: for any L whose identities are pairwise distinct and any R, no two
\* elements of addMessages(L, R) carry the same identity.
C3_NoDuplicateIdentity ==
    (mpc # "input" /\ PairwiseDistinctIds(left))
        => PairwiseDistinctIds(merged)

\* C4: merging two lists whose messages all lack an identity gives every
\* element of L and of R a fresh identity, all pairwise distinct, and the
\* result is all of L followed by all of R in their original order.
C4_IdentitylessAppend ==
    (mpc # "input" /\ NoneCarriesId(left0) /\ NoneCarriesId(right0))
        => /\ Len(merged) = Len(left0) + Len(right0)
           /\ ContentsOf(merged) = ContentsOf(left0) \o ContentsOf(right0)
           /\ \A i \in 1..Len(merged) : merged[i].id.kind = "uuid"
           /\ PairwiseDistinctIds(merged)
           /\ merged = left \o right

\* C4 for lists in which every position holds a message object of its own:
\* holds.
C4_DistinctObjectsAppend ==
    (/\ mpc # "input"
     /\ NoneCarriesId(left0) /\ NoneCarriesId(right0)
     /\ objects = DistinctObjects(left0, right0))
        => /\ Len(merged) = Len(left0) + Len(right0)
           /\ ContentsOf(merged) = ContentsOf(left0) \o ContentsOf(right0)
           /\ \A i \in 1..Len(merged) : merged[i].id.kind = "uuid"
           /\ PairwiseDistinctIds(merged)
           /\ merged = left \o right

\* C4 witness: both lists are identity-less and of the greatest length.
C4_Witness ==
    /\ mpc = "merged"
    /\ NoneCarriesId(left0) /\ NoneCarriesId(right0)
    /\ Len(left0) = MaxLen /\ Len(right0) = MaxLen
    /\ Len(merged) = 2 * MaxLen

\* C5: the first |L| positions of addMessages(L, R) hold the identities of L
\* in L's order, each element retained or replaced by an R element of the
\* same identity; the remaining positions hold exactly the R elements whose
\* identity is not in L, in R's order.
NewInRight(l, r) == SelectSeq(r, LAMBDA m : m.id \notin IdsOf(l))
C5_PrefixOfLeftThenNewOfRight ==
    (mpc # "input")
        => /\ Len(merged) = Len(left) + Len(NewInRight(left, right))
           /\ \A i \in 1..Len(left) :
                /\ merged[i].id = left[i].id
                /\ \/ merged[i] = left[i]
                   \/ \E j \in 1..Len(right) : right[j] = merged[i]
           /\ SubSeq(merged, Len(left) + 1, Len(merged)) = NewInRight(left, right)

\* C5 restricted to right lists with no new id that names an inherited
\* object property: holds.
C5_OrdinaryIdsPrefixThenNew ==
    (mpc # "input" /\ NoInheritedName(left0, right0))
        => /\ Len(merged) = Len(left) + Len(NewInRight(left, right))
           /\ \A i \in 1..Len(left) :
                /\ merged[i].id = left[i].id
                /\ \/ merged[i] = left[i]
                   \/ \E j \in 1..Len(right) : right[j] = merged[i]
           /\ SubSeq(merged, Len(left) + 1, Len(merged)) = NewInRight(left, right)

(***************************************************************************)
(* Properties of the graph runs (checked under Spec)                       *)
(***************************************************************************)
\* The nodes whose function calls interrupt(), with the payload they pass.
SuspendingNodes == {"human_input", "generate_response"}
PromptOf(node) ==
    IF node = "human_input" THEN HumanInputPrompt ELSE GenerateResponsePrompt

\* The step taken for thread s appended an event of kind ev to its trace.
Appended(s, ev) ==
    /\ Len(trace'[s]) = Len(trace[s]) + 1
    /\ Last(trace'[s]).ev = ev

\* C6: when a node requests suspension (human_input, generate_response) the
\* run stops with the session suspended, the new latest checkpoint carries the
\* interrupt payload and names the suspending node as the next node, and
\* nothing of the node's update is merged into the state.
C6_SuspensionStep(s) ==
    /\ (status[s] = "running" /\ budget[s] > 0 /\ cur[s] \in SuspendingNodes
          /\ resumeVal[s] = NoResume /\ trace'[s] # trace[s])
       => /\ Appended(s, "suspended")
          /\ status'[s] = "suspended"
          /\ Len(ckpts'[s]) = Len(ckpts[s]) + 1
          /\ Last(ckpts'[s]).interrupt = PromptOf(cur[s])
          /\ Last(ckpts'[s]).next = cur[s]
          /\ Last(ckpts'[s]).values = values[s]
          /\ values'[s] = values[s]
          /\ cur'[s] = cur[s]
          /\ result'.outcome = "Interrupt" /\ result'.payload = PromptOf(cur[s])
    /\ Appended(s, "suspended")
       => /\ status[s] = "running" /\ cur[s] \in SuspendingNodes
          /\ resumeVal[s] = NoResume
          /\ Last(trace'[s]).node = cur[s]
\* As get_state reports it: for a suspended session the snapshot names the
\* suspending node as next and carries the payload.
C6_GetStateOfSuspended ==
    \A s \in Threads :
        (result.op = "getState" /\ result.thread = s /\ status[s] = "suspended")
            => /\ result.outcome = "StateSnapshot"
               /\ result.next = cur[s] /\ result.next \in SuspendingNodes
               /\ result.payload = PromptOf(cur[s])
               /\ result.values = values[s]

\* C6: the step that suspends and what get_state then reports, together.
C6_SuspensionKeepsNodeAsNext ==
    /\ []C6_GetStateOfSuspended
    /\ [][\A s \in Threads : C6_SuspensionStep(s)]_vars

\* C6 witness: a session suspended at human_input after verify_info completed,
\* with the messages verify_info produced and nothing of human_input.
C6_Witness ==
    /\ graph = "hil"
    /\ status["t1"] = "suspended"
    /\ Last(ckpts["t1"]).next = "human_input"
    /\ Last(ckpts["t1"]).interrupt = HumanInputPrompt
    /\ Len(values["t1"].messages) = 2
    /\ result.op = "getState"

\* C7: resuming a suspended session re-invokes exactly the suspending node,
\* from the checkpointed state, with the resume value returned by its
\* interrupt() call, and then goes on with the step loop; the resume executes
\* no other node.
C7_ResumeStep(s) ==
    /\ Appended(s, "resume")
       => /\ \E i \in 1..Len(trace[s]) :
                /\ trace[s][i] = Event(Latest(s).next, "suspended")
                /\ \A j \in (i + 1)..Len(trace[s]) :
                      trace[s][j].ev \notin {"completed", "suspended"}
          /\ Latest(s).next \in SuspendingNodes
          /\ Last(trace'[s]).node = Latest(s).next
          /\ cur'[s] = Latest(s).next
          /\ values'[s] = Latest(s).values
          /\ resumeVal'[s] \in ResumeValues
          /\ status'[s] = "running"
          /\ ckpts' = ckpts
    /\ (Len(trace[s]) > 0 /\ Last(trace[s]).ev = "resume" /\ trace'[s] # trace[s])
       => /\ Last(trace'[s]).node = Last(trace[s]).node
          /\ Last(trace'[s]).ev \in {"completed", "failed"}
          /\ resumeVal[s] \in ResumeValues
          /\ (Last(trace'[s]).ev = "completed" /\ cur[s] = "human_input")
                => /\ graph = "hil"
                        => values'[s] = [values[s] EXCEPT
                                           !.messages = Append(@, BareString(resumeVal[s]))]
                   /\ \E i \in 1..Len(values'[s].messages) :
                         /\ values'[s].messages[i].role = "string"
                         /\ values'[s].messages[i].content = resumeVal[s]
                   /\ cur'[s] = "verify_info"
          /\ (Last(trace'[s]).ev = "completed" /\ cur[s] = "generate_response")
                => /\ values'[s].attempted_generations
                        = values[s].attempted_generations + 1
                   /\ values'[s].generation \in Generations
                   /\ cur'[s] \in {"configure_memory", "generate_response"}
          /\ Last(trace'[s]).ev = "completed" => resumeVal'[s] = NoResume
C7_ResumeReinvokesSuspendingNode ==
    [][\A s \in Threads : C7_ResumeStep(s)]_vars

\* C7 witness: a session was suspended at human_input, resumed, human_input
\* completed with the resume value, and verify_info ran next.
C7_Witness ==
    /\ graph = "hil"
    /\ Len(trace["t1"]) >= 6
    /\ trace["t1"][3] = Event("human_input", "suspended")
    /\ trace["t1"][4] = Event("human_input", "resume")
    /\ trace["t1"][5] = Event("human_input", "completed")
    /\ trace["t1"][6] = Event("verify_info", "completed")
    /\ BareString("r1") \in {values["t1"].messages[i] : i \in 1..Len(values["t1"].messages)}

\* C8: a resume on a session whose latest checkpoint has no pending interrupt
\* payload fails with ResumeWithoutSuspensionError, runs no node and leaves the
\* session's state and checkpoints unchanged.
C8_ResumeStep(s) ==
    (/\ HasLatest(s) /\ Latest(s).interrupt = NoInterrupt
     /\ calls' = [calls EXCEPT ![s] = @ + 1] /\ result'.op = "resume" /\ result'.thread = s)
       => /\ result'.outcome = "ResumeWithoutSuspensionError"
          /\ ckpts' = ckpts /\ values' = values /\ status' = status
          /\ cur' = cur /\ trace' = trace /\ resumeVal' = resumeVal
C8_ResumeWithoutSuspensionRejected ==
    [][\A s \in Threads : C8_ResumeStep(s)]_vars

\* C8 witness: a resume completed the run without a new suspension, and a
\* second resume was rejected.
C8_Witness ==
    /\ result.op = "resume" /\ result.thread = "t1"
    /\ result.outcome = "ResumeWithoutSuspensionError"
    /\ status["t1"] = "terminated"
    /\ \E i \in 1..Len(trace["t1"]) : trace["t1"][i].ev = "resume"
    /\ Last(trace["t1"]).ev = "completed"

\* C9: resume and get_state on a session identifier without checkpoints fail
\* with UnknownSessionError, create no session and append no checkpoint.
C9_UnknownStep(s) ==
    (/\ ~HasLatest(s)
     /\ calls' = [calls EXCEPT ![s] = @ + 1] /\ result'.op \in {"resume", "getState"} /\ result'.thread = s)
       => /\ result'.outcome = "UnknownSessionError"
          /\ ckpts' = ckpts /\ values' = values /\ status' = status
          /\ cur' = cur /\ trace' = trace /\ resumeVal' = resumeVal
C9_UnknownSessionRejected ==
    [][\A s \in Threads : C9_UnknownStep(s)]_vars

\* C9 witness: a resume on a thread id that was never invoked was rejected,
\* while another session of the same store is suspended.
C9_Witness ==
    /\ result.op = "resume" /\ result.thread = "t2"
    /\ result.outcome = "UnknownSessionError"
    /\ status["t2"] = "absent" /\ ckpts["t2"] = <<>>
    /\ status["t1"] = "suspended"

\* C10: the budget goes down by one for each completed step and by nothing
\* for a step that suspends; a node is invoked only while budget is left; a
\* run ends with RecursionLimitError exactly when N steps completed without
\* reaching the terminal marker or a suspension, and no node is invoked after.
C10_Counts ==
    \A s \in Threads :
        LET completed == Cardinality(EventsInRun(trace[s], {"completed"}))
            invoked == Cardinality(EventsInRun(trace[s], {"completed", "suspended", "failed"}))
            exhausted == EventsInRun(trace[s], {"exhausted"})
        IN  /\ budget[s] = runBudget[s] - completed
            /\ completed <= runBudget[s]
            /\ invoked <= completed + 1
            /\ completed = runBudget[s] => invoked = completed
            /\ exhausted # {}
                 => /\ completed = runBudget[s]
                    /\ exhausted = {Len(trace[s])}
                    /\ status[s] = "halted"
            /\ (status[s] = "running" /\ cur[s] # END /\ completed = runBudget[s])
                 => ENABLED BudgetExhausted(s)
C10_BudgetStep(s) ==
    /\ Appended(s, "completed") => budget[s] > 0 /\ budget'[s] = budget[s] - 1
    /\ Appended(s, "suspended") => budget[s] > 0 /\ budget'[s] = budget[s]
    /\ Appended(s, "failed") => budget[s] > 0 /\ budget'[s] = budget[s]
    /\ Appended(s, "exhausted")
         => /\ budget[s] = 0 /\ status[s] = "running"
            /\ result'.outcome = "RecursionLimitError" /\ result'.thread = s
            /\ values' = values /\ ckpts' = ckpts
C10_BudgetExact ==
    []C10_Counts /\ [][\A s \in Threads : C10_BudgetStep(s)]_vars

\* C10 witness: the assistant/tool loop of the music graph ran with the
\* largest budget and failed with RecursionLimitError after that many steps.
C10_Witness ==
    /\ graph = "music"
    /\ result.op = "invoke"
    /\ result.outcome = "RecursionLimitError"
    /\ runBudget["t1"] = MaxBudget
    /\ Cardinality(EventsInRun(trace["t1"], {"completed"})) = MaxBudget
    /\ Last(trace["t1"]).ev = "exhausted"

\* The nodes that have an event of kind ev in the trace of s.
NodesWith(tr, ev) == {tr[i].node : i \in {j \in 1..Len(tr) : tr[j].ev = ev}}

\* What a verify_info step does to the state of s when the model and the
\* database answer as o says: the state after the merge and the node routed to.
VerifyOutcome(s, o) ==
    LET out == verifyInfo(values[s], o)
        state == ApplyUpdate(graph, values[s], out.upd)
    IN  [kind |-> out.kind, state |-> state,
         next |-> IF out.kind = "update"
                  THEN RouteAfter(graph, "verify_info", state, NoGrade) ELSE Null]

\* C11, the verify_info step of an unverified session: without an identifier
\* in the input the step asks for it and routes to human_input; with an
\* identifier made of digits only, customer_id becomes that identifier and the
\* step routes to the supervisor (the model and the database answering).
C11_VerifyRoutes ==
    \A s \in Threads :
        (graph = "hil" /\ status[s] = "running" /\ cur[s] = "verify_info"
           /\ values[s].customer_id = Null)
        => \A o \in VerifyOracles :
              LET v == VerifyOutcome(s, o)
              IN  /\ (o.extract = "" /\ o.reply = "ok")
                        => /\ v.kind = "update"
                           /\ v.state.customer_id = Null
                           /\ v.next = "human_input"
                  /\ (o.extract # Throws /\ IsAllDigits(o.extract) /\ o.db = "up")
                        => /\ v.kind = "update"
                           /\ v.state.customer_id = o.extract
                           /\ v.next = "supervisor"
C11_HilStep(s) ==
    graph = "hil" =>
    \* an unverified session goes from verify_info to human_input and suspends
    \* there with the payload, the supervisor not having run
    /\ (Appended(s, "completed") /\ cur[s] = "verify_info"
          /\ values'[s].customer_id = Null)
         => cur'[s] = "human_input" /\ "supervisor" \notin NodesWith(trace'[s], "completed")
    /\ Appended(s, "suspended")
         => /\ values[s].customer_id = Null
            /\ Last(trace'[s]).node = "human_input"
            /\ result'.outcome = "Interrupt" /\ result'.payload = HumanInputPrompt
            /\ NodesWith(trace[s], "completed") \subseteq {"verify_info", "human_input"}
    \* once verified, the supervisor is all that remains, and its completion
    \* ends the run
    /\ (Appended(s, "completed") /\ values[s].customer_id # Null)
         => \/ cur[s] = "verify_info" /\ cur'[s] = "supervisor" /\ values'[s] = values[s]
            \/ /\ cur[s] = "supervisor" /\ cur'[s] = END
               /\ status'[s] = "terminated" /\ result'.outcome = "FinalState"
               /\ result'.values.customer_id = values[s].customer_id
    /\ (Appended(s, "completed") /\ cur[s] = "verify_info"
          /\ values'[s].customer_id # Null)
         => cur'[s] = "supervisor"
    /\ (status[s] \notin {"absent", "stored"} /\ status'[s] \notin {"absent", "stored"}
          /\ values[s].customer_id # Null)
         => values'[s].customer_id = values[s].customer_id
C11_HilEndToEnd ==
    []C11_VerifyRoutes /\ [][\A s \in Threads : C11_HilStep(s)]_vars

\* C11 witness: a fresh session was suspended at human_input, resumed once,
\* verified with the numeric identifier and ran to the end.
C11_Witness ==
    /\ graph = "hil"
    /\ status["t1"] = "terminated"
    /\ Len(trace["t1"]) = 7
    /\ [i \in 1..7 |-> trace["t1"][i].node] =
         <<"verify_info", "verify_info", "human_input", "human_input",
           "human_input", "verify_info", "supervisor">>
    /\ [i \in 1..7 |-> trace["t1"][i].ev] =
         <<"invoke", "completed", "suspended", "resume",
           "completed", "completed", "completed">>
    /\ values["t1"].customer_id = "1"
    /\ result.outcome = "FinalState"

\* The events of the run in progress (or of the last run), after the call
\* that started it, and the nodes among them that completed, in order.
RunEvents(tr) == SubSeq(tr, RunStart(tr) + 1, Len(tr))
RECURSIVE CompletedNodes(_)
CompletedNodes(evs) ==
    IF evs = <<>> THEN <<>>
    ELSE IF Head(evs).ev = "completed"
         THEN <<Head(evs).node>> \o CompletedNodes(Tail(evs))
    ELSE CompletedNodes(Tail(evs))
IsPrefix(p, q) == Len(p) <= Len(q) /\ SubSeq(q, 1, Len(p)) = p

\* C12: in the memory graph, a run that an invoke starts at verify_info and in
\* which verify_info leaves a customer id executes verify_info, load_memory,
\* supervisor, create_memory in that order, each once, never suspends, and is
\* terminated exactly when all four have completed.
VerifiedTrajectory == <<"verify_info", "load_memory", "supervisor", "create_memory">>
C12_VerifiedTrajectory ==
    \A s \in Threads :
        LET tr == trace[s]
            evs == RunEvents(tr)
            done == CompletedNodes(evs)
        IN  (/\ graph = "mem" /\ RunStart(tr) > 0
             /\ tr[RunStart(tr)] = Event("verify_info", "invoke")
             /\ status[s] \notin {"absent", "stored"}
             /\ done # <<>> /\ values[s].customer_id # Null)
            => /\ IsPrefix(done, VerifiedTrajectory)
               /\ \A i \in 1..Len(evs) : evs[i].ev # "suspended"
               /\ status[s] = "terminated" <=> done = VerifiedTrajectory
               /\ (status[s] = "running" /\ Len(done) < 4)
                     => cur[s] = VerifiedTrajectory[Len(done) + 1]

\* C12 witness: one invoke ran the four nodes and terminated.
C12_Witness ==
    /\ graph = "mem"
    /\ status["t1"] = "terminated"
    /\ Len(trace["t1"]) = 5
    /\ CompletedNodes(trace["t1"]) = VerifiedTrajectory
    /\ values["t1"].customer_id = "2"
    /\ result.outcome = "FinalState"

\* C13: in the memory graph an unverified session goes verify_info, then
\* suspends at human_input; resumed, human_input completes with the value and
\* hands over to verify_info, which (still without a customer id) hands back
\* to human_input, where the run suspends again; load_memory, supervisor and
\* create_memory do not run while customer_id is null.
C13_UnverifiedStep(s) ==
    graph = "mem" =>
    /\ (status[s] = "running" /\ cur[s] = "human_input" /\ budget[s] > 0
          /\ resumeVal[s] = NoResume /\ trace'[s] # trace[s])
         => Appended(s, "suspended")
    /\ (status[s] = "running" /\ cur[s] = "human_input" /\ budget[s] > 0
          /\ resumeVal[s] # NoResume /\ trace'[s] # trace[s])
         => Appended(s, "completed") /\ cur'[s] = "verify_info"
    /\ (Appended(s, "completed") /\ cur[s] = "verify_info"
          /\ values'[s].customer_id = Null)
         => cur'[s] = "human_input"
    /\ (status[s] = "running" /\ values[s].customer_id = Null /\ trace'[s] # trace[s])
         => Last(trace'[s]).node \in {"verify_info", "human_input"}
C13_UnverifiedTrajectory ==
    [][\A s \in Threads : C13_UnverifiedStep(s)]_vars

\* The same trajectory where the build runs the modules as sloppy-mode code:
\* the assignment of an id to the string does nothing and the merge goes on.
C13_SloppyBuildTrajectory ==
    [][~strict => \A s \in Threads : C13_UnverifiedStep(s)]_vars

\* C14: in the HIL graph and the memory graph the supervisor (and load_memory
\* and create_memory) is entered only with a customer id in the state; while
\* customer_id is null only verify_info and human_input run.
ServiceNodes == {"supervisor", "load_memory", "create_memory"}
C14_ServiceOnlyVerified ==
    \A s \in Threads :
        (graph \in {"hil", "mem"} /\ status[s] \notin {"absent", "stored"})
        => /\ cur[s] \in ServiceNodes => values[s].customer_id # Null
           /\ values[s].customer_id = Null
                => /\ cur[s] \in {"verify_info", "human_input"}
                   /\ \A i \in 1..Len(trace[s]) : trace[s][i].node \notin ServiceNodes
C14_ServiceStep(s) ==
    (graph \in {"hil", "mem"} /\ status[s] = "running" /\ trace'[s] # trace[s])
    => /\ Last(trace'[s]).node = cur[s]
       /\ cur[s] \in ServiceNodes => values[s].customer_id # Null
       /\ values[s].customer_id = Null => cur[s] \in {"verify_info", "human_input"}
       /\ cur'[s] \in ServiceNodes => values'[s].customer_id # Null
C14_VerificationPrecedesService ==
    []C14_ServiceOnlyVerified /\ [][\A s \in Threads : C14_ServiceStep(s)]_vars

\* C14 witness: in the memory graph, a session verified by its e-mail address
\* has run load_memory and the supervisor and is about to run create_memory.
C14_Witness ==
    /\ graph = "mem"
    /\ status["t1"] = "running" /\ cur["t1"] = "create_memory"
    /\ values["t1"].customer_id = "3"
    /\ CompletedNodes(trace["t1"]) = <<"verify_info", "load_memory", "supervisor">>

\* C15: the checkpoint sequence of a session only grows at its end: the step
\* numbers are 1, 2, 3, ... in order, and after any sequence of invoke and
\* resume operations a checkpoint once recorded keeps its state, next node
\* and interrupt payload.  (A restart of the process is no such operation:
\* it leaves no checkpoint at all, see C17.)
C15_StepsIncrease ==
    \A s \in Threads :
        \A i \in 1..Len(ckpts[s]) :
            /\ ckpts[s][i].step = i
            /\ \A j \in 1..Len(ckpts[s]) : i < j => ckpts[s][i].step < ckpts[s][j].step
C15_AppendStep(s) ==
    \/ ~Restarted /\ Restarted'
    \/ ckpts'[s] = ckpts[s]
    \/ /\ Len(ckpts'[s]) = Len(ckpts[s]) + 1
       /\ SubSeq(ckpts'[s], 1, Len(ckpts[s])) = ckpts[s]
C16_LatestIsCurrent ==
    \A s \in Threads :
        (graph \in {"hil", "rag", "mem"} /\ Len(trace[s]) > 0)
        => /\ status[s] \in {"suspended", "terminated"}
                => Last(trace[s]).ev \in {"completed", "suspended"}
           /\ Last(trace[s]).ev \in {"completed", "suspended"}
                => /\ HasLatest(s)
                   /\ Latest(s).values = values[s]
                   /\ Latest(s).next = cur[s]
                   /\ status[s] = "terminated" <=> Latest(s).next = END
                   /\ status[s] = "suspended" <=> Latest(s).interrupt # NoInterrupt
C16_RecordStep(s) ==
    (graph \in {"hil", "rag", "mem"} /\ Appended(s, "completed"))
    => /\ Len(ckpts'[s]) = Len(ckpts[s]) + 1
       /\ Last(ckpts'[s]) = [step |-> Len(ckpts[s]) + 1, values |-> values'[s],
                             next |-> cur'[s], interrupt |-> NoInterrupt]
C16_CheckpointPerStep ==
    []C16_LatestIsCurrent /\ [][\A s \in Threads : C16_RecordStep(s)]_vars

\* C16 witness: the corrective loop of the RAG graph is between two steps, the
\* documents graded and recorded, generate_response next.
C16_Witness ==
    /\ graph = "rag"
    /\ status["t1"] = "running" /\ cur["t1"] = "generate_response"
    /\ Last(trace["t1"]) = Event("grade_documents", "completed")
    /\ Len(ckpts["t1"]) = 2
    /\ Latest("t1").values.documents # <<>>

\* C17 as stated: resuming after a restart is resuming without one.  The
\* restart keeps the checkpoint data of a suspended session, and what the
\* continuation reads of the long-term memory; the resume made after it is
\* answered as the resume made without it: it is accepted, and re-invokes
\* the suspending node from the state of the latest checkpoint.
C17_RestartStep(s) ==
    /\ (~SuspendedAtRestart(s) /\ SuspendedAtRestart(s)')
         => /\ ckpts'[s] = ckpts[s]
            /\ store' = store
    /\ (SuspendedAtRestart(s) /\ result'.op = "resume" /\ result'.thread = s
           /\ calls'[s] = calls[s] + 1)
         => /\ result'.outcome = "pending"
            /\ Appended(s, "resume")
            /\ status'[s] = "running"
            /\ cur'[s] = Last(trace[s]).node
C17_ForgottenStep(s) ==
    /\ (~SuspendedAtRestart(s) /\ SuspendedAtRestart(s)')
         => /\ ckpts' = [t \in Threads |-> <<>>]
            /\ store' = <<>>
            /\ status' = [t \in Threads |-> "absent"]
    /\ (SuspendedAtRestart(s) /\ result'.op = "resume" /\ result'.thread = s
           /\ calls'[s] = calls[s] + 1)
         => /\ result'.outcome = "UnknownSessionError"
            /\ trace'[s] = trace[s]
            /\ status'[s] = "absent"
C17_RestartForgetsSessions ==
    [][\A s \in Threads : C17_ForgottenStep(s)]_vars

\* The case of C17 is reached: a session that was suspended when the process
\* was restarted has been resumed, and the resume was refused.
C17_ResumeRefused ==
    \E s \in Threads :
        /\ SuspendedAtRestart(s)
        /\ result.op = "resume" /\ result.thread = s
        /\ result.outcome = "UnknownSessionError"

\* The resume events of a session's trace: each is one re-invocation of the
\* suspending node by a resume call.
ResumeEvents(tr) == {i \in 1..Len(tr) : tr[i].ev = "resume"}
\* The steps between two events of a trace.
Between(i, j) == (i + 1)..(j - 1)

\* C18 as stated: concurrent resume calls on one session are serialized.  For
\* one pending interrupt at most one resume re-invokes the suspending node:
\* between any two re-invocations the session was suspended anew.  A resume
\* call is taken up only when no run is in progress on the session, and then
\* it re-invokes the suspending node of a pending interrupt or is rejected
\* with ResumeWithoutSuspensionError and changes nothing; while a run is in
\* progress the calls made on the session wait.  From the re-invocation to
\* the end of the node's step the session holds the checkpointed state and
\* nothing of the node's update, and then the whole update.
C18_AtMostOneReinvokes ==
    \A s \in Threads :
        \A i, j \in ResumeEvents(trace[s]) :
            i < j => \E k \in Between(i, j) : trace[s][k].ev = "suspended"
C18_NothingPartlyApplied ==
    \A s \in Threads :
        (Len(trace[s]) > 0 /\ Last(trace[s]).ev = "resume")
          => /\ status[s] = "running"
             /\ values[s] = Latest(s).values
             /\ cur[s] = Latest(s).next
             /\ resumeVal[s] # NoResume
C18_ResumeStep(s) ==
    /\ Appended(s, "resume")
         => /\ status[s] # "running"
            /\ Latest(s).interrupt # NoInterrupt
            /\ \E v \in waiting[s] :
                  /\ waiting'[s] = waiting[s] \ {v}
                  /\ resumeVal'[s] = v
    /\ status[s] = "running"
         => /\ waiting[s] \subseteq waiting'[s]
            /\ calls'[s] = calls[s]
    /\ (waiting'[s] # waiting[s] /\ waiting'[s] \subseteq waiting[s])
         => /\ calls'[s] = calls[s] + 1
            /\ result'.op = "resume" /\ result'.thread = s
            /\ \/ Appended(s, "resume")
               \/ /\ result'.outcome = "ResumeWithoutSuspensionError"
                  /\ Latest(s).interrupt = NoInterrupt
                  /\ <<values[s], cur[s], status[s], ckpts[s], trace[s]>>'
                        = <<values[s], cur[s], status[s], ckpts[s], trace[s]>>
    /\ (status[s] = "running" /\ resumeVal[s] # NoResume /\ trace'[s] # trace[s])
         => \/ /\ Appended(s, "completed")
               /\ resumeVal'[s] = NoResume
               /\ Last(ckpts'[s]).interrupt = NoInterrupt
               /\ Last(ckpts'[s]).values = values'[s]
            \/ Appended(s, "failed") /\ values'[s] = values[s] /\ ckpts'[s] = ckpts[s]
\* C18 as stated: at most one resume re-invokes the node for one pending
\* interrupt, calls are taken up one at a time, nothing is partly applied.
C18_ResumesSerialized ==
    /\ []C18_AtMostOneReinvokes
    /\ []C18_NothingPartlyApplied
    /\ [][\A s \in Threads : C18_ResumeStep(s)]_vars

\* C18 with the failed run: for one pending interrupt at most one resume
\* re-invokes the suspending node to the end of its step.  Two re-invocations
\* with no suspension between them have no completed step between them: the
\* run of the first failed in the suspending node before the node's update
\* was merged, and the interrupt was still pending.  The rest is as stated.
C18_OneResumePerInterrupt ==
    \A s \in Threads :
        \A i, j \in ResumeEvents(trace[s]) :
            (i < j /\ \A k \in Between(i, j) : trace[s][k].ev # "suspended")
            => /\ \A k \in Between(i, j) : trace[s][k].ev # "completed"
               /\ \E k \in Between(i, j) : trace[s][k].ev = "failed"
\* C18, amended: as above, but a resume may re-invoke the node again after
\* the run of an earlier resume failed inside it.
C18_ResumesSerializedUpToFailure ==
    /\ []C18_OneResumePerInterrupt
    /\ []C18_NothingPartlyApplied
    /\ [][\A s \in Threads : C18_ResumeStep(s)]_vars

\* C18 witness: two resume calls were made on the suspended session; one was
\* taken up and has re-invoked human_input, the other waits while that run
\* is in progress.
C18_Witness ==
    /\ graph = "hil"
    /\ status["t1"] = "running"
    /\ Last(trace["t1"]) = Event("human_input", "resume")
    /\ resumeVal["t1"] = "r1"
    /\ waiting["t1"] = {"r2"}
    /\ Latest("t1").interrupt # NoInterrupt

\* The waiting call of C18 is taken up after the run: it applies to the later
\* suspension of that run.
C18_LaterSuspension ==
    /\ graph = "hil"
    /\ Cardinality(ResumeEvents(trace["t1"])) = 2
    /\ Cardinality({i \in 1..Len(trace["t1"]) : trace["t1"][i].ev = "suspended"}) = 2
    /\ Last(trace["t1"]) = Event("human_input", "completed")
    /\ values["t1"].messages[Len(values["t1"].messages)] = BareString("r2")

\* C20: the memory nodes tolerate an absent prior profile.  With no entry in
\* the store for the customer, load_memory returns an update that sets
\* loaded_memory to "", and create_memory, whatever profile the model
\* answers, is given "" as the existing profile, returns an update and leaves
\* that profile in the store under the customer; the steps of the two nodes
\* complete accordingly (create_memory fails only when the model call fails).
ProfileAbsent(s) ==
    /\ graph = "mem"
    /\ status[s] = "running"
    /\ values[s].customer_id # Null
    /\ ~StoreGet(store, values[s].customer_id).found
C20_NodesOnAbsentProfile ==
    \A s \in Threads :
        /\ (ProfileAbsent(s) /\ cur[s] = "load_memory")
              => loadMemory(values[s], store) = Returns([loaded_memory |-> ""])
        /\ (ProfileAbsent(s) /\ cur[s] = "create_memory")
              => \A o \in ProfileOracles :
                    LET r == createOrUpdateMemory(values[s], store, o)
                    IN  ~o.fails =>
                          /\ r.out.kind = "update"
                          /\ r.baseline = ""
                          /\ StoreGet(r.store, values[s].customer_id)
                                = [found |-> TRUE, value |-> o.profile]
\* The session's memory node has asked the store and found no profile.
ReadAbsent(s) ==
    /\ graph = "mem"
    /\ status[s] = "running"
    /\ values[s].customer_id # Null
    /\ memRead[s].pending
    /\ ~memRead[s].item.found
C20_AbsentStep(s) ==
    /\ (ProfileAbsent(s) /\ cur[s] \in {"load_memory", "create_memory"}
           /\ ~memRead[s].pending /\ memRead'[s] # memRead[s])
          => /\ memRead'[s].pending
             /\ ~memRead'[s].item.found
             /\ trace'[s] = trace[s]
    /\ (ReadAbsent(s) /\ cur[s] = "load_memory" /\ trace'[s] # trace[s])
          => /\ Appended(s, "completed")
             /\ values'[s].loaded_memory = ""
    /\ (ReadAbsent(s) /\ cur[s] = "create_memory" /\ Appended(s, "failed"))
          => store' = store
    /\ (ReadAbsent(s) /\ cur[s] = "create_memory"
           /\ ~memRead[s].put /\ memRead'[s].put)
          => StoreGet(store', values[s].customer_id)
                = [found |-> TRUE, value |-> memRead'[s].profile]
    /\ (ReadAbsent(s) /\ cur[s] = "create_memory" /\ Appended(s, "completed"))
          => /\ memRead[s].put
             /\ StoreGet(store', values[s].customer_id).found
             /\ values'[s].loaded_memory
                   = formatUserMemory(StoreGet(store', values[s].customer_id))
C20_AbsentProfileTolerated ==
    []C20_NodesOnAbsentProfile /\ [][\A s \in Threads : C20_AbsentStep(s)]_vars

\* C20 witness: both nodes have completed in a run that began with an empty
\* store, and the store now holds the customer's profile.
C20_Witness ==
    /\ graph = "mem"
    /\ CompletedNodes(RunEvents(trace["t1"]))
          = <<"verify_info", "load_memory", "supervisor", "create_memory">>
    /\ Cardinality({i \in 1..Len(trace["t1"]) : trace["t1"][i].ev = "invoke"}) = 1
    /\ values["t1"].customer_id \in DOMAIN store
    /\ store[values["t1"].customer_id].music_preferences = <<"rock", "jazz">>
    /\ values["t1"].loaded_memory = "Music Preferences: rock, jazz"

\* What a session holds in the engine and in the checkpoint store.
SessionData(s) ==
    <<values[s], cur[s], status[s], ckpts[s], budget[s], resumeVal[s], trace[s]>>
\* The customer a session was verified as (kept in every later checkpoint).
CustomerOf(s) == IF HasLatest(s) THEN Latest(s).values.customer_id ELSE Null
\* The memory text a session running alone would load: that of the profile
\* its own last completed create_memory step stored ("" before the first).
OwnMemory(s) ==
    LET done == {i \in 1..Len(ckpts[s]) : ckpts[s][i].next = END}
    IN  IF done = {} THEN ""
        ELSE ckpts[s][CHOOSE i \in done : \A j \in done : j <= i].values.loaded_memory
\* A step belongs to one session and leaves the other session's data alone,
\* what its memory node holds between two awaits included.
C19_Frame ==
    \A s \in Threads :
        (SessionData(s)' # SessionData(s) \/ memRead'[s] # memRead[s])
          => \A t \in Threads \ {s} :
                SessionData(t)' = SessionData(t) /\ memRead'[t] = memRead[t]

\* C19 as stated: under any interleaving each session's state and checkpoints
\* are those of the session run alone; in particular what load_memory loads
\* is what the session itself stored.  Violated by the memory graph.
C19_AsIfAloneStep(s) ==
    (graph = "mem" /\ cur[s] = "load_memory" /\ Appended(s, "completed"))
      => values'[s].loaded_memory = OwnMemory(s)
C19_SessionsAsIfAlone ==
    [][C19_Frame /\ \A s \in Threads : C19_AsIfAloneStep(s)]_vars

\* C19, amended: a step of one session leaves the other session's state and
\* checkpoint sequence unchanged; the long-term memory store is changed only
\* by the store.put of a create_memory node and only at the entry of that
\* session's customer; load_memory loads what its store.get found at the entry
\* of the session's customer, which is what the session itself stored
\* whenever the other session is not of that customer.
C19_StoreStep(s) ==
    /\ (graph = "mem" /\ cur[s] = "load_memory" /\ status[s] = "running"
           /\ ~memRead[s].pending /\ memRead'[s].pending)
          => memRead'[s].item = StoreGet(store, CustomerOf(s))
    /\ (graph = "mem" /\ cur[s] = "load_memory" /\ Appended(s, "completed"))
          => /\ values'[s].loaded_memory = formatUserMemory(memRead[s].item)
             /\ (\A t \in Threads \ {s} : CustomerOf(t) # CustomerOf(s))
                   => values'[s].loaded_memory = OwnMemory(s)
    /\ (memRead'[s] # memRead[s] /\ store' # store)
          => /\ cur[s] = "create_memory"
             /\ ~memRead[s].put /\ memRead'[s].put
             /\ \A k \in (DOMAIN store \cup DOMAIN store') \ {values[s].customer_id} :
                   StoreGet(store', k) = StoreGet(store, k)
C19_StoreChanged ==
    store' # store => \E s \in Threads : memRead'[s] # memRead[s]
C19_SessionsIsolatedButForMemory ==
    [][C19_Frame /\ C19_StoreChanged /\ \A s \in Threads : C19_StoreStep(s)]_vars

\* C19 witness: both sessions have run, interleaved, and the first one's
\* load_memory has completed after the second one's create_memory and after
\* the second one had been resumed.
C19_Witness ==
    /\ graph = "mem"
    /\ Len(ckpts["t1"]) >= 2
    /\ Len(ckpts["t2"]) >= 4
    /\ \E i \in 1..Len(trace["t2"]) : trace["t2"][i].ev = "resume"
    /\ Last(trace["t2"]) = Event("create_memory", "completed")
    /\ Last(trace["t1"]) = Event("load_memory", "completed")
    /\ CustomerOf("t1") # CustomerOf("t2")
    /\ CustomerOf("t2") \in DOMAIN store
    /\ store[CustomerOf("t2")].music_preferences = <<"rock", "jazz">>
    /\ values["t1"].loaded_memory = ""

\* The store with only the entry of one user id left (or none).
OnlyEntry(st, userId) == [k \in DOMAIN st \cap {userId} |-> st[k]]

\* C21: create_memory for customer c reads and writes only the store entry of
\* c: whatever the model answers, the store it leaves differs from the store
\* it found at most at c, and its result is the same when every other entry
\* is taken away; with a null customer_id it returns an empty update and the
\* store as found; every step of load_memory and of any other node leaves the
\* store unchanged, and the only step that changes it is the store.put of a
\* create_memory node, at most at c.
C21_CreateMemoryTouchesOwnEntry ==
    \A s \in Threads :
        (graph = "mem" /\ status[s] \notin {"absent", "stored"})
          => \A o \in ProfileOracles :
                LET c == values[s].customer_id
                    r == createOrUpdateMemory(values[s], store, o)
                    alone == createOrUpdateMemory(values[s], OnlyEntry(store, c), o)
                    anon == createOrUpdateMemory([values[s] EXCEPT !.customer_id = Null],
                                                 store, o)
                IN  /\ \A k \in DOMAIN store \ {c} :
                          /\ k \in DOMAIN r.store
                          /\ r.store[k] = store[k]
                    /\ DOMAIN r.store \subseteq DOMAIN store \cup {c}
                    /\ r.out = alone.out
                    /\ r.baseline = alone.baseline
                    /\ anon.out = Returns(EmptyUpdate)
                    /\ anon.store = store
                    /\ loadMemory(values[s], store).kind = "update"
C21_StoreStep(s) ==
    (trace'[s] # trace[s] \/ memRead'[s] # memRead[s])
      => IF /\ cur[s] = "create_memory" /\ status[s] = "running"
            /\ memRead[s].pending /\ ~memRead[s].put /\ memRead'[s].put
         THEN /\ \A k \in DOMAIN store \ {values[s].customer_id} :
                    k \in DOMAIN store' /\ store'[k] = store[k]
              /\ DOMAIN store' \subseteq DOMAIN store \cup {values[s].customer_id}
              /\ store' = StorePut(store, values[s].customer_id, memRead'[s].profile)
         ELSE store' = store
C21_PutIsAStep ==
    store' # store
      => \E s \in Threads : trace'[s] # trace[s] \/ memRead'[s] # memRead[s]
C21_MemoryFrame ==
    /\ []C21_CreateMemoryTouchesOwnEntry
    /\ [][C21_PutIsAStep /\ \A s \in Threads : C21_StoreStep(s)]_vars

\* C21 witness: the store holds the profiles of two customers; the second
\* session's create_memory step has written its own and left the first's.
C21_Witness ==
    /\ graph = "mem"
    /\ Len(trace["t1"]) > 0 /\ Len(trace["t2"]) > 0
    /\ Last(trace["t1"]) = Event("create_memory", "completed")
    /\ Last(trace["t2"]) = Event("create_memory", "completed")
    /\ CustomerOf("t1") # CustomerOf("t2")
    /\ DOMAIN store = {CustomerOf("t1"), CustomerOf("t2")}
    /\ store[CustomerOf("t1")].music_preferences = <<"rock", "jazz">>
    /\ store[CustomerOf("t2")].music_preferences = <<>>

\* The errors that are fatal for a run and leave the checkpoint alone.
FatalErrors == {"RecursionLimitError", "UnknownRouteError"}
\* The last run of the session has just ended in a fatal error: the error is
\* the last thing a call returned.
FatallyHalted(s) ==
    /\ status[s] = "halted"
    /\ Len(trace[s]) > 0
    /\ Last(trace[s]).ev \in {"exhausted", "failed"}
    /\ result.op \in {"invoke", "resume"}
    /\ result.thread = s
    /\ result.outcome \in FatalErrors

\* C22: a fatal run error leaves the last checkpoint standing.  The step on
\* which a run fails with RecursionLimitError or UnknownRouteError leaves the
\* session's checkpoint sequence as it was; afterwards no run is in progress
\* on the session, getState is answered, with the latest checkpoint, and an
\* invoke with a fresh budget starts at that checkpoint's next node from its
\* values with the input merged in.
C22_HaltedIsReadable ==
    \A s \in Threads :
        (FatallyHalted(s) /\ HasLatest(s))
          => /\ C15_StepsIncrease
             /\ status[s] # "running"
             /\ CallsLeft => ENABLED GetState(s)
C22_FatalStep(s) ==
    /\ (trace'[s] # trace[s] /\ status[s] = "running" /\ status'[s] = "halted"
          /\ result'.outcome \in FatalErrors)
          => /\ ckpts'[s] = ckpts[s]
             /\ values'[s] = values[s]
             /\ cur'[s] = cur[s]
    /\ (FatallyHalted(s) /\ HasLatest(s) /\ result'.op = "getState"
          /\ calls' = [calls EXCEPT ![s] = @ + 1] /\ result'.thread = s)
          => /\ result'.outcome = "StateSnapshot"
             /\ result'.values = Latest(s).values
             /\ result'.next = Latest(s).next
             /\ ckpts'[s] = ckpts[s]
    /\ (FatallyHalted(s) /\ HasLatest(s) /\ Appended(s, "invoke"))
          => /\ ckpts'[s] = ckpts[s]
             /\ status'[s] = "running"
             /\ budget'[s] \in Budgets
             /\ cur'[s] = (IF Latest(s).next # END THEN Latest(s).next
                           ELSE StartNode(graph))
             /\ \E input \in InvokeInputs(graph) :
                   values'[s] = ApplyUpdate(graph, Latest(s).values, input)
C22_FatalErrorKeepsCheckpoint ==
    []C22_HaltedIsReadable /\ [][\A s \in Threads : C22_FatalStep(s)]_vars

\* C22 witness: a run was cut short by the budget after its first step; the
\* next invoke went on from the checkpoint of that step and completed a step.
C22_Witness ==
    /\ graph = "rag"
    /\ Len(trace["t1"]) = 5
    /\ trace["t1"][2].ev = "completed"
    /\ trace["t1"][3].ev = "exhausted"
    /\ trace["t1"][4] = Event(ckpts["t1"][1].next, "invoke")
    /\ trace["t1"][5] = Event(ckpts["t1"][1].next, "completed")
    /\ Len(ckpts["t1"]) = 2

\* No routing function of the four graphs returns a label without a target.
NoUnknownRoute == result.op = "none" \/ result.outcome # "UnknownRouteError"

\* What the latest checkpoint of a session that is not running says of it.
Pending(s) == HasLatest(s) /\ Latest(s).interrupt # NoInterrupt
AtEnd(s) == HasLatest(s) /\ Latest(s).next = END /\ Latest(s).interrupt = NoInterrupt
ErrorOutcomes == {"RecursionLimitError", "UnknownRouteError", "NodeError", "ReducerError"}

\* C23 as stated: a session that exists is running, suspended or terminated.
\* Violated: a run that failed leaves the session not running, with a latest
\* checkpoint that neither holds a payload nor points to the terminal marker.
C23_ThreeStatuses ==
    \A s \in Threads :
        \/ status[s] \in {"absent", "running", "suspended", "terminated"}
        \/ status[s] = "stored" /\ (Pending(s) \/ AtEnd(s))

\* C23, amended: a session that exists is running, suspended, terminated or
\* halted by a failed run; suspended and terminated agree with the latest
\* checkpoint and exclude each other; no checkpoint with a pending payload
\* points to the terminal marker; a run ends on one step, with one outcome:
\* FinalState with terminated, Interrupt with suspended, an error with halted.
C23_StatusAndCheckpoint ==
    \A s \in Threads :
        /\ status[s] \in {"absent", "running", "suspended", "terminated", "halted", "stored"}
        /\ status[s] = "suspended" => Pending(s) /\ Latest(s).next = cur[s] /\ cur[s] # END
        /\ (status[s] = "terminated" /\ HasCheckpointer(graph)) => AtEnd(s)
        /\ status[s] = "terminated" => cur[s] = END
        /\ status[s] = "halted" => Len(trace[s]) > 0 /\ Last(trace[s]).ev \in {"exhausted", "failed"}
        /\ \A i \in 1..Len(ckpts[s]) :
              ckpts[s][i].interrupt # NoInterrupt => ckpts[s][i].next \in SuspendingNodes
C23_OutcomeStep(s) ==
    /\ Appended(s, "suspended")
          => /\ status'[s] = "suspended"
             /\ cur'[s] = cur[s] /\ budget'[s] = budget[s] /\ values'[s] = values[s]
    /\ (status[s] = "running" /\ status'[s] # "running")
          => /\ trace'[s] # trace[s]
             /\ result'.op = RunOp(s) /\ result'.thread = s
             /\ status'[s] \in {"suspended", "terminated", "halted"}
             /\ (status'[s] = "terminated") = (result'.outcome = "FinalState")
             /\ (status'[s] = "suspended") = (result'.outcome = "Interrupt")
             /\ (status'[s] = "halted") = (result'.outcome \in ErrorOutcomes)
             /\ (status'[s] = "terminated") = Appended(s, "completed")
    /\ (status[s] = "running" /\ status'[s] = "running" /\ trace'[s] # trace[s])
          => Appended(s, "completed") /\ cur'[s] # END
C23_OneOutcomePerRun ==
    []C23_StatusAndCheckpoint /\ [][\A s \in Threads : C23_OutcomeStep(s)]_vars

\* C23 witness: a session whose first run was suspended and whose resumed run
\* terminated: its checkpoints hold one with a payload and a final one.
C23_Witness ==
    /\ graph = "hil"
    /\ status["t1"] = "terminated"
    /\ AtEnd("t1")
    /\ \E i \in 1..Len(ckpts["t1"]) : ckpts["t1"][i].interrupt # NoInterrupt
    /\ result.op = "resume" /\ result.outcome = "FinalState"

\* C24: routing is a function of the state.  Of the evaluations of the
\* routing functions that the sessions have made, any two of one function on
\* identical states, with the same grader decision, returned the same label,
\* in one session or in different sessions; each returned label is one of
\* the mapping of its conditional edge (gradeHallucinations may throw
\* instead of returning), and the run went on at the mapping's target of
\* that label.
C24_SameStateSameLabel ==
    \A a, b \in routings :
        (a.node = b.node /\ a.state = b.state /\ a.grade = b.grade)
          => a.label = b.label
C24_LabelsDeclared ==
    \A r \in routings :
        /\ \/ r.label \in DOMAIN RoutingMapping(graph, r.node)
           \/ r.node = "generate_response" /\ r.label = Throws
        /\ r.next = Target(RoutingMapping(graph, r.node), r.label)
C24_RouteStep(s) ==
    (Appended(s, "completed") /\ cur[s] \in ConditionalNodes(graph))
      => \E r \in routings' :
            /\ r.thread = s /\ r.node = cur[s] /\ r.state = values'[s]
            /\ r.label \in DOMAIN RoutingMapping(graph, cur[s])
            /\ cur'[s] = RoutingMapping(graph, cur[s])[r.label]
SameStateRouted(node) ==
    \E a, b \in routings :
        /\ a.thread # b.thread
        /\ a.node = node /\ b.node = node
        /\ a.state = b.state /\ a.grade = b.grade

C24_SameStateInterrupt == graph = "hil" /\ SameStateRouted("verify_info")
C24_SameStateContinue == graph = "music" /\ SameStateRouted("music_assistant")
C24_SameStateDecide == graph = "rag" /\ SameStateRouted("grade_documents")

\* The last message is an AI message carrying at least one tool call.
AsksForTools(state) ==
    /\ state.messages # <<>>
    /\ Last(state.messages).role = "ai"
    /\ Last(state.messages).tool_calls > 0

\* C25: the loop of the music subagent.  music_tool_node is the current node
\* only right after a completed music_assistant step whose response asks for
\* tools; a music_tool_node step goes on to music_assistant; a
\* music_assistant step goes on to music_tool_node when its response asks for
\* tools and otherwise ends the run, returning the final state to the caller;
\* and the run ends in no other way than that.
C25_ToolNodeOnlyAfterToolCall ==
    \A s \in Threads :
        (graph = "music" /\ status[s] \in {"running", "halted", "terminated"})
          => LET done == CompletedNodes(RunEvents(trace[s]))
             IN  /\ \A i \in 1..Len(done) :
                       /\ done[i] = "music_tool_node"
                            => i > 1 /\ done[i - 1] = "music_assistant"
                       /\ (done[i] = "music_tool_node" /\ i < Len(done))
                            => done[i + 1] = "music_assistant"
                 /\ (cur[s] = "music_tool_node")
                       => /\ Len(done) > 0 /\ done[Len(done)] = "music_assistant"
                          /\ AsksForTools(values[s])
                 /\ (status[s] = "terminated")
                       => /\ Len(done) > 0 /\ done[Len(done)] = "music_assistant"
                          /\ ~AsksForTools(values[s])
                          /\ cur[s] = END
C25_LoopStep(s) ==
    (graph = "music" /\ Appended(s, "completed"))
      => /\ cur[s] = "music_tool_node" => cur'[s] = "music_assistant"
         /\ (cur[s] = "music_assistant" /\ AsksForTools(values'[s]))
               => cur'[s] = "music_tool_node" /\ status'[s] = "running"
         /\ (cur[s] = "music_assistant" /\ ~AsksForTools(values'[s]))
               => /\ cur'[s] = END /\ status'[s] = "terminated"
                  /\ result' = Outcome("invoke", s, "FinalState", NoInterrupt,
                                       values'[s], END)
C25_MusicLoop ==
    []C25_ToolNodeOnlyAfterToolCall /\ [][\A s \in Threads : C25_LoopStep(s)]_vars

\* C25 witness: assistant, tools, assistant, and the run has ended with an
\* answer that carries no tool call.
C25_Witness ==
    /\ graph = "music"
    /\ status["t1"] = "terminated"
    /\ CompletedNodes(RunEvents(trace["t1"]))
          = <<"music_assistant", "music_tool_node", "music_assistant">>
    /\ Last(values["t1"].messages) = AIMessage("answer", 0)
    /\ result.outcome = "FinalState"

\* The extraction of the identifier or its lookup fails during the call.
ExtractionOrLookupFails(o) ==
    \/ o.extract = Throws
    \/ o.extract # "" /\ o.extract # Throws /\ o.db = "down"

\* C26: verify_info turns a failing extraction or lookup into state.  At
\* every state in which verify_info is about to run for an unverified
\* customer, and whatever fails: the node throws only when the fallback model
\* call fails; when the extraction or the lookup fails and the fallback call
\* answers, it returns an update of the messages channel alone, holding one
\* message, and the state that update gives is routed to human_input.  A
\* completed verify_info step that leaves customer_id null adds one message
\* and goes on to human_input.
C26_FailureBecomesState ==
    \A s \in Threads :
        (graph \in {"hil", "mem"} /\ status[s] = "running" /\ cur[s] = "verify_info"
           /\ values[s].customer_id = Null)
          => \A o \in VerifyOracles :
                LET out == verifyInfo(values[s], o)
                IN  /\ out.kind = "throw" => o.fallback = Throws
                    /\ out.kind \in {"throw", "update"}
                    /\ (ExtractionOrLookupFails(o) /\ o.fallback # Throws)
                          => /\ out.kind = "update"
                             /\ DOMAIN out.upd = {"messages"}
                             /\ Len(out.upd.messages) = 1
                             /\ out.upd.messages[1].role = "ai"
                             /\ ~UpdateThrows(graph, values[s], out.upd)
                                  => RouteAfter(graph, "verify_info",
                                                ApplyUpdate(graph, values[s], out.upd),
                                                NoGrade) = "human_input"
                    /\ (ExtractionOrLookupFails(o) /\ o.fallback = Throws)
                          => out = NodeThrows
C26_FallbackStep(s) ==
    (graph \in {"hil", "mem"} /\ cur[s] = "verify_info" /\ Appended(s, "completed")
       /\ values'[s].customer_id = Null)
      => /\ cur'[s] = "human_input"
         /\ status'[s] = "running"
         /\ Len(values'[s].messages) = Len(values[s].messages) + 1
C26_VerifyInfoConvertsFailure ==
    []C26_FailureBecomesState /\ [][\A s \in Threads : C26_FallbackStep(s)]_vars

\* C26 witness: the extraction threw, the fallback call answered, and the
\* step recorded exactly the state that update gives, with human_input next.
C26_Witness ==
    /\ graph = "hil"
    /\ Len(ckpts["t1"]) >= 1
    /\ ckpts["t1"][1].next = "human_input"
    /\ \E input \in InvokeInputs("hil") :
          \E o \in {x \in VerifyOracles : x.extract = Throws /\ x.fallback # Throws} :
             LET base == ApplyUpdate("hil", Defaults("hil"), input)
             IN  ckpts["t1"][1].values
                    = ApplyUpdate("hil", base, verifyInfo(base, o).upd)
    /\ status["t1"] = "suspended"

\* C27: invoke continues an existing session from its latest checkpoint and
\* merges the input through the reducers.  The state an accepted invoke
\* starts the run with is the latest checkpoint's values (the channel
\* defaults when the session has no checkpoint) with the input merged in; in
\* memory-hil-rag the question becomes the input's and every other channel,
\* messages included, is as recorded; in the verification graph the input's
\* messages follow the recorded ones.  The run starts at the checkpoint's next
\* node, or at the start node when there is none or it is the terminal marker.
\* In memory-hil-rag the messages of every checkpoint are a prefix of those
\* of every later one.
C27_MessagesRetained ==
    \A s \in Threads :
        graph = "rag"
          => /\ \A i, j \in 1..Len(ckpts[s]) :
                   i <= j => IsPrefix(ckpts[s][i].values.messages,
                                      ckpts[s][j].values.messages)
             /\ (HasLatest(s) /\ status[s] \notin {"absent", "stored"})
                   => IsPrefix(Latest(s).values.messages, values[s].messages)
C27_InvokeStep(s) ==
    Appended(s, "invoke")
      => LET base == IF HasLatest(s) THEN Latest(s).values ELSE Defaults(graph)
         IN  /\ \E input \in InvokeInputs(graph) :
                   /\ values'[s] = ApplyUpdate(graph, base, input)
                   /\ graph = "rag"
                        => /\ values'[s].question = input.question
                           /\ \A c \in DOMAIN base \ {"question"} :
                                 values'[s][c] = base[c]
                   /\ graph = "hil"
                        => /\ values'[s].messages = base.messages \o input.messages
                           /\ \A c \in DOMAIN base \ {"messages"} :
                                 values'[s][c] = base[c]
             /\ cur'[s] = (IF HasLatest(s) /\ Latest(s).next # END
                           THEN Latest(s).next ELSE StartNode(graph))
             /\ ckpts'[s] = ckpts[s]
C27_InvokeContinues ==
    []C27_MessagesRetained /\ [][\A s \in Threads : C27_InvokeStep(s)]_vars

\* C27 witness: a first turn of memory-hil-rag went through to the end and
\* recorded its question and answer in messages; a second invoke on the
\* thread has put a new question over the old one and kept the messages.
C27_Witness ==
    /\ graph = "rag"
    /\ HasLatest("t1")
    /\ Latest("t1").next = END
    /\ Latest("t1").values.question = "q1"
    /\ Len(Latest("t1").values.messages) = 2
    /\ Len(trace["t1"]) > 0
    /\ Last(trace["t1"]) = Event("retrieve_documents", "invoke")
    /\ values["t1"].question = "q2"
    /\ values["t1"].messages = Latest("t1").values.messages
    /\ values["t1"].messages[1] = HumanMessage("q1")

\* The channels the update of a node can name.
NamedChannels(node) ==
    CASE node = "verify_info" -> {"messages", "customer_id"}
      [] node \in {"human_input", "supervisor", "music_assistant", "music_tool_node"}
            -> {"messages"}
      [] node \in {"load_memory", "create_memory"} -> {"loaded_memory"}
      [] node \in {"retrieve_documents", "grade_documents"} -> {"documents"}
      [] node = "generate_response" -> {"generation", "attempted_generations"}
      [] node = "configure_memory" -> {"messages", "attempted_generations", "documents"}

\* C28: a step changes only the channels its node's update names.  Merging
\* the empty update gives the state back; a completed step leaves every
\* channel outside those its node names as it was; verify_info called with a
\* customer_id returns the empty update whatever the model and the database
\* would do, and its step leaves messages, customer_id, loaded_memory and
\* remaining_steps unchanged.
C28_EmptyUpdateKeepsState ==
    \A s \in Threads :
        status[s] \notin {"absent", "stored"}
          => /\ ApplyUpdate(graph, values[s], EmptyUpdate) = values[s]
             /\ (graph \in {"hil", "mem"} /\ values[s].customer_id # Null)
                   => \A o \in VerifyOracles :
                         verifyInfo(values[s], o) = Returns(EmptyUpdate)
C28_FrameStep(s) ==
    Appended(s, "completed")
      => /\ \A c \in DOMAIN values[s] \ NamedChannels(cur[s]) :
               values'[s][c] = values[s][c]
         /\ DOMAIN values'[s] = DOMAIN values[s]
         /\ (cur[s] = "verify_info" /\ values[s].customer_id # Null)
               => /\ values'[s] = values[s]
                  /\ values'[s].messages = values[s].messages
                  /\ values'[s].customer_id = values[s].customer_id
                  /\ values'[s].loaded_memory = values[s].loaded_memory
                  /\ values'[s].remaining_steps = values[s].remaining_steps
C28_StepChangesNamedChannelsOnly ==
    []C28_EmptyUpdateKeepsState /\ [][\A s \in Threads : C28_FrameStep(s)]_vars

\* C28 witness: a second invoke on a verified session of the memory graph
\* ran verify_info again, after load_memory had set loaded_memory; the step
\* completed and the state is the one it was called with.
C28_Witness ==
    /\ graph = "mem"
    /\ Cardinality({i \in 1..Len(trace["t1"]) : trace["t1"][i].ev = "invoke"}) = 2
    /\ Last(trace["t1"]) = Event("verify_info", "completed")
    /\ values["t1"].customer_id # Null
    /\ values["t1"].loaded_memory = "Music Preferences: rock, jazz"
    /\ Len(values["t1"].messages) >= 2
    /\ cur["t1"] = "load_memory"

\* C29 as stated: addMessages leaves both input lists and every message in
\* them unchanged, and on inputs whose messages all carry an identity its
\* result depends on the two lists alone (no uuid is drawn).  left and right
\* are the caller's lists after the call, left0 and right0 what they were.
\* Violated: a message without an id is given one in place.
C29_InputsUnchanged ==
    mpc # "input"
      => /\ left = left0
         /\ right = right0
         /\ (AllCarryId(left0) /\ AllCarryId(right0)) => uuidCounter = 0

\* C29 restricted to inputs whose messages all carry an identity: the lists
\* and their messages are as before the call and no uuid is drawn.  Holds.
C29_IdentifiedInputsUnchanged ==
    (mpc # "input" /\ AllCarryId(left0) /\ AllCarryId(right0))
      => /\ left = left0
         /\ right = right0
         /\ uuidCounter = 0
         /\ merged = addMessages(left0, right0, 0, objects).merged

\* Number of events of the given kinds at the node in the session's trace.
CountAt(tr, node, kinds) ==
    Cardinality({i \in 1..Len(tr) : tr[i].node = node /\ tr[i].ev \in kinds})

\* C30: every suspending node suspends first.  Called without a resume value
\* humanInput and generateResponse do nothing but suspend: whatever the model
\* would answer, the outcome is the interrupt with the node's prompt and an
\* empty update.  A suspending step leaves the state, the store and the
\* budget as they were.  In memory-hil-rag the executions of
\* generate_response that got as far as the model call (completed or failed)
\* never outnumber the resumes of the session.
C30_SuspendsBeforeWork ==
    \A s \in Threads :
        /\ (status[s] = "running" /\ cur[s] = "human_input")
              => humanInput(values[s], NoResume) = Interrupts(HumanInputPrompt)
        /\ (status[s] = "running" /\ cur[s] = "generate_response")
              => \A o \in Generations \cup {Throws} :
                    generateResponse(values[s], NoResume, o)
                       = Interrupts(GenerateResponsePrompt)
        /\ graph = "rag"
              => CountAt(trace[s], "generate_response", {"completed", "failed"})
                    <= Cardinality({i \in 1..Len(trace[s]) : trace[s][i].ev = "resume"})
C30_SuspendStep(s) ==
    /\ Appended(s, "suspended")
          => /\ values'[s] = values[s]
             /\ store' = store
             /\ budget'[s] = budget[s]
             /\ resumeVal[s] = NoResume
             /\ Last(ckpts'[s]).values = values[s]
    /\ (cur[s] \in SuspendingNodes /\ status[s] = "running" /\ resumeVal[s] = NoResume
          /\ trace'[s] # trace[s])
          => Appended(s, "suspended") \/ Appended(s, "exhausted")
C30_SuspensionComesFirst ==
    []C30_SuspendsBeforeWork /\ [][\A s \in Threads : C30_SuspendStep(s)]_vars

\* C30 witness: two resumes, two generations: the first answer was found not
\* supported, generate_response suspended again and was resumed again.
C30_Witness ==
    /\ graph = "rag"
    /\ CountAt(trace["t1"], "generate_response", {"completed"}) = 2
    /\ CountAt(trace["t1"], "generate_response", {"suspended"}) = 2
    /\ Cardinality({i \in 1..Len(trace["t1"]) : trace["t1"][i].ev = "resume"}) = 2
    /\ values["t1"].attempted_generations = 2

\* Executions of generate_response in the run in progress (or the last run):
\* the steps at which the node function was invoked, whether the step was
\* completed or the node or its routing function failed.
GenerationsInRun(tr) ==
    Cardinality({i \in (RunStart(tr) + 1)..Len(tr) :
                    tr[i].node = "generate_response" /\ tr[i].ev \in {"completed", "failed"}})

\* C31: the corrective-RAG graph generates at most ATTEMPTED_GENERATION_MAX
\* times in a run.  In every state the run has executed generate_response at
\* most three times and the counter equals the number of completed
\* generations; a grounded generation ends the run at once with the final
\* state; an ungrounded one goes back to generate_response while the counter
\* is below three; the third ungrounded one makes the routing throw and the
\* run fail, nothing merged; and no generation starts with the counter at
\* three.
C31_AtMostThreeGenerations ==
    \A s \in Clients :
        (graph = "crag" /\ status[s] \notin {"absent", "stored"})
          => /\ GenerationsInRun(trace[s]) <= CORRECTIVE_ATTEMPTED_GENERATION_MAX
             /\ values[s].attempted_generations
                   = Cardinality({i \in (RunStart(trace[s]) + 1)..Len(trace[s]) :
                                     /\ trace[s][i].node = "generate_response"
                                     /\ trace[s][i].ev = "completed"})
             /\ (status[s] = "running" /\ cur[s] = "generate_response")
                   => values[s].attempted_generations < CORRECTIVE_ATTEMPTED_GENERATION_MAX
C31_GenerateStep(s) ==
    (graph = "crag" /\ status[s] = "running" /\ cur[s] = "generate_response"
       /\ trace'[s] # trace[s] /\ budget[s] > 0)
      => \/ /\ Appended(s, "completed")
            /\ values'[s].attempted_generations = values[s].attempted_generations + 1
            /\ \/ /\ status'[s] = "terminated" /\ cur'[s] = END
                  /\ result' = Outcome("invoke", s, "FinalState", NoInterrupt,
                                       values'[s], END)
               \/ /\ status'[s] = "running" /\ cur'[s] = "generate_response"
                  /\ values'[s].attempted_generations < CORRECTIVE_ATTEMPTED_GENERATION_MAX
         \/ /\ Appended(s, "failed")
            /\ status'[s] = "halted"
            /\ result'.outcome = "NodeError"
            /\ values'[s] = values[s]
C31_GroundedEndsUngroundedRetries ==
    \A s \in Clients, o \in Generations :
        (graph = "crag" /\ status[s] = "running" /\ cur[s] = "generate_response")
          => LET out == CorrectiveGenerateResponse(values[s], o)
                 state == ApplyUpdate(graph, values[s], out.upd)
                 n == values[s].attempted_generations + 1
             IN  /\ out.kind = "update"
                 /\ state.attempted_generations = n
                 /\ RouteAfter(graph, "generate_response", state, "grounded") = END
                 /\ RouteAfter(graph, "generate_response", state, "ungrounded")
                       = IF n < CORRECTIVE_ATTEMPTED_GENERATION_MAX
                         THEN "generate_response" ELSE Throws
C31_CorrectiveRetryBound ==
    /\ []C31_AtMostThreeGenerations
    /\ []C31_GroundedEndsUngroundedRetries
    /\ [][\A s \in Clients : C31_GenerateStep(s)]_vars

\* C31 witness: the third generation of a run was ungrounded too and the run
\* has failed, with budget left for a fourth.
C31_Witness ==
    /\ graph = "crag"
    /\ status["t1"] = "halted"
    /\ GenerationsInRun(trace["t1"]) = 3
    /\ Last(trace["t1"]) = Event("generate_response", "failed")
    /\ values["t1"].attempted_generations = 2
    /\ budget["t1"] > 0
    /\ result.outcome = "NodeError"

\* C32: generation needs documents.  In corrective-rag and in memory-hil-rag
\* generate_response is the node to run, or the node a checkpoint points to,
\* only in a state whose documents are not empty; right after a
\* grade_documents step the routing is "some relevant" to generate_response
\* exactly when a document is left; and a grade_documents step that leaves
\* none ends the run with the final state, every channel but documents as it
\* was.
C32_GenerateHasDocuments ==
    \A s \in Clients :
        /\ (graph \in RetrievalGraphs /\ status[s] \notin {"absent", "stored"}
              /\ cur[s] = "generate_response")
              => values[s].documents # <<>>
        /\ graph \in RetrievalGraphs
              => \A i \in 1..Len(ckpts[s]) :
                    ckpts[s][i].next = "generate_response"
                      => ckpts[s][i].values.documents # <<>>
C32_GradeStep(s) ==
    (graph \in RetrievalGraphs /\ status[s] = "running" /\ cur[s] = "grade_documents"
       /\ Appended(s, "completed"))
      => IF values'[s].documents = <<>>
         THEN /\ status'[s] = "terminated" /\ cur'[s] = END
              /\ result' = Outcome(RunOp(s), s, "FinalState", NoInterrupt,
                                   values'[s], END)
              /\ \A c \in DOMAIN values[s] \ {"documents"} :
                    values'[s][c] = values[s][c]
              /\ Len(trace'[s]) = Len(trace[s]) + 1
         ELSE status'[s] = "running" /\ cur'[s] = "generate_response"
C32_NoGenerationWithoutDocuments ==
    []C32_GenerateHasDocuments /\ [][\A s \in Clients : C32_GradeStep(s)]_vars

\* C32 witness: in memory-hil-rag, in a later turn of a session that has
\* answered before, the grader kept no document and the run has ended with
\* the answer and the messages of the turn before.
C32_Witness ==
    /\ graph = "rag"
    /\ status["t1"] = "terminated"
    /\ Last(trace["t1"]) = Event("grade_documents", "completed")
    /\ values["t1"].documents = <<>>
    /\ values["t1"].generation # ""
    /\ Len(values["t1"].messages) = 2
    /\ result.outcome = "FinalState"

\* A history of question and answer pairs: human, ai, human, ai, ...
Alternates(msgs) ==
    /\ Len(msgs) % 2 = 0
    /\ \A i \in 1..Len(msgs) :
          msgs[i].role = (IF i % 2 = 1 THEN "human" ELSE "ai")

\* C33: the conversation history of memory-hil-rag.  A configure_memory step
\* appends exactly the question and the generation of the state it ran on, as
\* a human and an ai message, sets attempted_generations to 0, empties
\* documents and ends the run; no other step and no call changes messages;
\* hence in every state and every checkpoint messages has even length and
\* alternates human, ai.
C33_MessagesAlternate ==
    \A s \in Clients :
        graph = "rag"
          => /\ status[s] \notin {"absent", "stored"} => Alternates(values[s].messages)
             /\ \A i \in 1..Len(ckpts[s]) : Alternates(ckpts[s][i].values.messages)
C33_TurnStep(s) ==
    (graph = "rag" /\ status[s] \notin {"absent", "stored"}
       /\ status'[s] \notin {"absent", "stored"})
      => IF status[s] = "running" /\ cur[s] = "configure_memory" /\ trace'[s] # trace[s]
            /\ budget[s] > 0
         THEN /\ Appended(s, "completed")
              /\ values'[s].messages
                    = values[s].messages
                        \o <<HumanMessage(values[s].question),
                             AIMessage(values[s].generation, 0)>>
              /\ values'[s].attempted_generations = 0
              /\ values'[s].documents = <<>>
              /\ values'[s].question = values[s].question
              /\ values'[s].generation = values[s].generation
              /\ status'[s] = "terminated" /\ cur'[s] = END
              /\ Latest(s)' = [step |-> Len(ckpts[s]) + 1, values |-> values'[s],
                               next |-> END, interrupt |-> NoInterrupt]
         ELSE values'[s].messages = values[s].messages
C33_HistoryOfPairs ==
    []C33_MessagesAlternate /\ [][\A s \in Clients : C33_TurnStep(s)]_vars

\* C33 witness: a turn with one ungrounded and one grounded generation has
\* ended through configure_memory.
C33_Witness ==
    /\ graph = "rag"
    /\ status["t1"] = "terminated"
    /\ Last(trace["t1"]) = Event("configure_memory", "completed")
    /\ CountAt(trace["t1"], "generate_response", {"completed"}) = 2
    /\ values["t1"].messages
          = <<HumanMessage(values["t1"].question), AIMessage(values["t1"].generation, 0)>>
    /\ values["t1"].attempted_generations = 0
    /\ values["t1"].documents = <<>>

\* The calls (invoke, resume) the session's trace records.
CallsOf(s) == {i \in 1..Len(trace[s]) : trace[s][i].ev \in {"invoke", "resume"}}

\* The first call of the session was an invoke and its run has ended without
\* an error; no other call has started a run since.
FirstInvokeEnded(s) ==
    /\ Cardinality(CallsOf(s)) = 1
    /\ trace[s][1].ev = "invoke"
    /\ status[s] \in {"suspended", "terminated"}

\* C34: the run functions of the evaluations invoke the memory graph on a
\* fresh thread and then resume it.  Stated of every question: when the first
\* invocation has ended the session is suspended, with a pending interrupt
\* payload, and the resume that follows is not rejected with
\* ResumeWithoutSuspensionError.
C34_FirstInvokeSuspends ==
    \A s \in Clients :
        (graph = "mem" /\ FirstInvokeEnded(s))
          => /\ status[s] = "suspended"
             /\ Latest(s).interrupt # NoInterrupt
             /\ ~(/\ result.op = "resume"
                  /\ result.thread = s
                  /\ result.outcome = "ResumeWithoutSuspensionError")

\* What holds instead: the first invocation ends suspended exactly when
\* verify_info obtained no customer id, and terminated with one.
C34_FirstInvokeSuspendsIffUnverified ==
    \A s \in Clients :
        (graph = "mem" /\ FirstInvokeEnded(s))
          => /\ status[s] = "suspended" <=> values[s].customer_id = Null
             /\ status[s] = "suspended" <=> Latest(s).interrupt # NoInterrupt

\* C35: the attempt counter of a memory-hil-rag session.  Stated of every
\* reachable state: attempted_generations is at most ATTEMPTED_GENERATION_MAX,
\* in the state and in every checkpoint, and a turn (the run an invoke
\* started) comes to generate_response with the counter at 0.
C35_CounterBoundedAndReset ==
    \A s \in Clients :
        graph = "rag"
          => /\ status[s] \notin {"absent", "stored"}
                   => values[s].attempted_generations <= ATTEMPTED_GENERATION_MAX
             /\ \A i \in 1..Len(ckpts[s]) :
                   ckpts[s][i].values.attempted_generations <= ATTEMPTED_GENERATION_MAX
             /\ (status[s] = "running" /\ cur[s] = "generate_response"
                   /\ RunOp(s) = "invoke")
                   => values[s].attempted_generations = 0

\* What holds of the counter: it never exceeds the maximum, it is below the
\* maximum whenever generate_response is about to run, and it is 0 after
\* every configure_memory step.
C35_CounterBounded ==
    \A s \in Clients :
        graph = "rag"
          => /\ status[s] \notin {"absent", "stored"}
                   => /\ values[s].attempted_generations <= ATTEMPTED_GENERATION_MAX
                      /\ cur[s] = "generate_response"
                            => values[s].attempted_generations < ATTEMPTED_GENERATION_MAX
             /\ \A i \in 1..Len(ckpts[s]) :
                   /\ ckpts[s][i].values.attempted_generations <= ATTEMPTED_GENERATION_MAX
                   /\ (i > 1 /\ ckpts[s][i - 1].next = "configure_memory"
                         /\ ckpts[s][i].next = END)
                         => ckpts[s][i].values.attempted_generations = 0

\* C36: customer_id is stable once verified, in the HIL graph and the memory
\* graph.  Called with a customer id in the state verifyInfo returns the empty
\* update; called without one, an update that names customer_id gives it a
\* non-empty value.  The checkpoints of a session never go from a customer id
\* to null or to another id.  A step or call of a session changes customer_id
\* only as a completed verify_info step that found it null; every other step,
\* resume and invoke leaves it as it was.
C36_VerifyWritesOnce ==
    \A s \in Clients :
        (graph \in {"hil", "mem"} /\ status[s] \notin {"absent", "stored"})
          => \A o \in VerifyOracles :
                LET out == verifyInfo(values[s], o)
                IN  /\ values[s].customer_id # Null => out = Returns(EmptyUpdate)
                    /\ (out.kind = "update" /\ "customer_id" \in DOMAIN out.upd)
                          => /\ values[s].customer_id = Null
                             /\ out.upd.customer_id \notin {Null, ""}
C36_CheckpointsKeepCustomer ==
    \A s \in Clients :
        graph \in {"hil", "mem"}
          => /\ \A i \in 1..Len(ckpts[s]) : \A j \in i..Len(ckpts[s]) :
                   ckpts[s][i].values.customer_id # Null
                     => ckpts[s][j].values.customer_id = ckpts[s][i].values.customer_id
             /\ (status[s] \notin {"absent", "stored"} /\ HasLatest(s)
                   /\ Latest(s).values.customer_id # Null)
                   => values[s].customer_id = Latest(s).values.customer_id
C36_CustomerStep(s) ==
    (graph \in {"hil", "mem"} /\ status[s] \notin {"absent", "stored"}
       /\ status'[s] \notin {"absent", "stored"})
      => /\ values[s].customer_id # Null
               => values'[s].customer_id = values[s].customer_id
         /\ values'[s].customer_id # values[s].customer_id
               => /\ status[s] = "running" /\ cur[s] = "verify_info"
                  /\ Appended(s, "completed")
                  /\ values'[s].customer_id \notin {Null, ""}
C36_CustomerIdStable ==
    /\ []C36_VerifyWritesOnce
    /\ []C36_CheckpointsKeepCustomer
    /\ [][\A s \in Clients : C36_CustomerStep(s)]_vars

\* C36 witness: a session verified through a resume and ended is invoked
\* again, and verify_info has run once more on the verified state.
C36_Witness ==
    /\ graph = "hil"
    /\ CountAt(trace["t1"], "human_input", {"resume"}) = 1
    /\ Cardinality(CallsOf("t1")) = 3
    /\ Last(trace["t1"]) = Event("verify_info", "completed")
    /\ values["t1"].customer_id # Null
    /\ Len(ckpts["t1"]) >= 5
    /\ ckpts["t1"][1].values.customer_id = Null
    /\ Latest("t1").values.customer_id = values["t1"].customer_id

\* The plain append reducer of State.messages (hil-assistant.ts line 49):
\* [...(currentState || []), ...updateValue].
AppendMessages(l, r) == l \o r

\* C37: the identity merge against the plain append.  Stated of all L and R
\* whose messages all carry an identity: when the identities of R are pairwise
\* distinct and none of them is in L, addMessages(L, R) is L followed by R;
\* and whenever the two results differ, R repeats an identity of L.
C37_MergeEqualsAppend ==
    (mpc # "input" /\ AllCarryId(left0) /\ AllCarryId(right0))
        => /\ (PairwiseDistinctIds(right0) /\ IdsOf(right0) \cap IdsOf(left0) = {})
                 => merged = AppendMessages(left0, right0)
           /\ merged # AppendMessages(left0, right0)
                 => IdsOf(right0) \cap IdsOf(left0) # {}

\* The same for identities of R that name no inherited object property:
\* holds, and there the results differ exactly when R repeats an identity of L.
C37_OrdinaryIdsMergeEqualsAppend ==
    (/\ mpc # "input"
     /\ AllCarryId(left0) /\ AllCarryId(right0)
     /\ NoInheritedName(left0, right0))
        => /\ (PairwiseDistinctIds(right0) /\ IdsOf(right0) \cap IdsOf(left0) = {})
                 => merged = AppendMessages(left0, right0)
           /\ merged # AppendMessages(left0, right0)
                 <=> IdsOf(right0) \cap IdsOf(left0) # {}

\* The step is the part of create_memory that puts a profile into the store.
PutsProfile(s) ==
    /\ graph = "mem"
    /\ status[s] = "running" /\ cur[s] = "create_memory"
    /\ memRead[s].pending /\ ~memRead[s].put
    /\ memRead'[s].put
    /\ store' = StorePut(store, values[s].customer_id, memRead'[s].profile)

\* C38: the read-modify-write of create_memory against the other session.
\* Stated of every interleaving of two sessions: when create_memory puts the
\* profile, the item it got from the store before asking the model is the
\* item the store still holds for that customer, so that the put overwrites
\* the profile the new one was derived from.
C38_PutStep(s) ==
    PutsProfile(s)
      => memRead[s].item = StoreGet(store, values[s].customer_id)
C38_ReadModifyWriteAtomic ==
    [][\A s \in Threads : C38_PutStep(s)]_vars

\* What holds: the item read is the one overwritten whenever no other session
\* of the same customer is inside create_memory or has put since the read;
\* in particular whenever the two sessions are of different customers.
C38_OtherCustomerStep(s) ==
    (PutsProfile(s) /\ \A t \in Threads \ {s} : CustomerOf(t) # values[s].customer_id)
      => memRead[s].item = StoreGet(store, values[s].customer_id)
C38_AtomicAmongDifferentCustomers ==
    [][\A s \in Threads : C38_OtherCustomerStep(s)]_vars

\* The run of the session has ended: in a terminated session, in a suspended
\* one, or with an error raised to the caller.
RunEnded(s) == status[s] \in {"terminated", "suspended", "halted"}

\* C39: no run executes forever.  A run started by invoke or resume with
\* budget N has at most N completed steps and at most one more event, the one
\* that ends it; while it is running it stands at a node of the graph;
\* each scheduler step of a running session either ends the run or takes one
\* off the budget; when the run has ended the caller holds the final state,
\* the interrupt or the error; and under a scheduler that goes on every
\* running session reaches the end of its run.
C39_BoundedRun ==
    \A s \in Threads :
        status[s] \notin {"absent", "stored"}
          => LET completed == Cardinality(EventsInRun(trace[s], {"completed"}))
                 ending == Cardinality(EventsInRun(trace[s],
                                          {"suspended", "failed", "exhausted"}))
             IN  /\ completed <= runBudget[s]
                 /\ ending <= 1
                 /\ budget[s] >= 0
                 /\ status[s] = "running" <=> ~RunEnded(s)
                 /\ status[s] = "running"
                       => /\ ending = 0
                          /\ cur[s] # END
                 /\ RunEnded(s)
                       => /\ ending = 1 \/ cur[s] = END
                          /\ result.op \in {"invoke", "resume", "getState"}
                          /\ status[s] = "terminated" <=> cur[s] = END
C39_ProgressStep(s) ==
    (status[s] = "running" /\ trace'[s] # trace[s])
      => \/ RunEnded(s)'
         \/ status'[s] = "running" /\ budget'[s] = budget[s] - 1
C39_EveryRunEnds ==
    /\ []C39_BoundedRun
    /\ [][\A s \in Threads : C39_ProgressStep(s)]_vars
    /\ \A s \in Clients : (status[s] = "running") ~> RunEnded(s)

\* C39 witness: the verify_info / human_input loop of the HIL graph, resumed
\* with the largest budget, has ended by suspending again; the assistant/tool
\* loop is the witness of C10 and the generate_response loop that of C33.
C39_Witness ==
    /\ graph = "hil"
    /\ status["t1"] = "suspended"
    /\ RunOp("t1") = "resume"
    /\ runBudget["t1"] = MaxBudget
    /\ CompletedNodes(RunEvents(trace["t1"])) = <<"human_input", "verify_info">>
    /\ Last(trace["t1"]) = Event("human_input", "suspended")
    /\ result.outcome = "Interrupt"

(***************************************************************************)
(* C40: the verification loop of the HIL graph                             *)
(***************************************************************************)
ResumesOf(tr) == Cardinality({i \in 1..Len(tr) : tr[i].ev = "resume"})
PassesOf(tr) ==
    Cardinality({i \in 1..Len(tr) : tr[i] = Event("human_input", "completed")})
PassesInRun(tr) ==
    Cardinality({i \in (RunStart(tr) + 1)..Len(tr) :
                    tr[i] = Event("human_input", "completed")})
Verified(s) == status[s] \notin {"absent", "stored"} /\ values[s].customer_id # Null

\* The run of s ended at the supervisor without its answer: the subgraph
\* threw, or the budget of the run was spent before it could be invoked.
SupervisorDidNotAnswer(s) ==
    /\ status[s] = "halted"
    /\ Last(trace[s]).node = "supervisor"
    /\ Last(trace[s]).ev \in {"failed", "exhausted"}

\* C40: liveness of the verification loop.  In every state of the HIL graph:
\* the passes through human_input never outnumber the resumes, a run makes at
\* most one pass and none when it was started by invoke; a suspended session
\* is unverified, waits at human_input with the prompt pending and has no
\* step of the scheduler enabled; a terminated session is verified and got
\* the supervisor's answer; a run fails only because verify_info or the
\* supervisor threw or because its budget was below the three steps of a
\* pass.  Every step: a pass consumes the resume value of its run and hands
\* on to verify_info; verify_info obtaining a customer id hands on to the
\* supervisor; a suspended session changes only by a call of its client.
\* Under a scheduler that goes on, a resumed run ends (terminated, suspended
\* for the next resume, or failed), and a run whose session is verified ends
\* terminated unless the supervisor did not answer.
C40_LoopShape ==
    \A s \in Clients :
        status[s] \notin {"absent", "stored"}
          => LET tr == trace[s]
             IN  /\ PassesOf(tr) <= ResumesOf(tr)
                 /\ PassesInRun(tr) <= 1
                 /\ RunOp(s) = "invoke" => PassesInRun(tr) = 0
                 /\ status[s] = "suspended"
                       => /\ values[s].customer_id = Null
                          /\ Latest(s).next = "human_input"
                          /\ Latest(s).interrupt = HumanInputPrompt
                          /\ Last(tr) = Event("human_input", "suspended")
                          /\ ~ENABLED VerificationStep(s)
                 /\ status[s] = "terminated"
                       => /\ values[s].customer_id # Null
                          /\ Last(tr) = Event("supervisor", "completed")
                 /\ status[s] = "halted"
                       => \/ Last(tr) \in {Event("verify_info", "failed"),
                                           Event("supervisor", "failed")}
                          \/ Last(tr).ev = "exhausted" /\ runBudget[s] < 3
C40_PassStep(s) ==
    /\ (trace'[s] = Append(trace[s], Event("human_input", "completed")))
          => /\ RunOp(s) = "resume"
             /\ resumeVal[s] # NoResume
             /\ resumeVal'[s] = NoResume
             /\ Last(values'[s].messages).content = resumeVal[s]
             /\ cur'[s] = "verify_info"
             /\ status'[s] = "running"
    /\ (status[s] = "running" /\ values[s].customer_id = Null
          /\ status'[s] \notin {"absent", "stored"} /\ values'[s].customer_id # Null)
          => /\ trace'[s] = Append(trace[s], Event("verify_info", "completed"))
             /\ cur'[s] = "supervisor"
             /\ status'[s] = "running"
    /\ (status[s] = "suspended"
          /\ <<trace'[s], values'[s], ckpts'[s], status'[s], cur'[s]>>
                # <<trace[s], values[s], ckpts[s], status[s], cur[s]>>)
          => /\ Appended(s, "resume") \/ Appended(s, "invoke")
             /\ ckpts'[s] = ckpts[s]
             /\ result'.thread = s
C40_VerificationLoopLive ==
    /\ []C40_LoopShape
    /\ [][\A s \in Clients : C40_PassStep(s)]_vars
    /\ \A s \in Clients :
          (status[s] = "running" /\ resumeVal[s] # NoResume)
             ~> (status[s] \in {"terminated", "suspended", "halted"})
    /\ \A s \in Clients :
          (status[s] = "running" /\ Verified(s))
             ~> (status[s] = "terminated" \/ SupervisorDidNotAnswer(s))

\* C40 witness: the first resume did not identify the customer and the
\* session suspended again; the second did, the supervisor answered and the
\* session is terminated after two passes and two resumes.
C40_Witness ==
    /\ graph = "hil"
    /\ status["t1"] = "terminated"
    /\ ResumesOf(trace["t1"]) = 2
    /\ PassesOf(trace["t1"]) = 2
    /\ Cardinality({i \in 1..Len(trace["t1"]) :
                       trace["t1"][i] = Event("human_input", "suspended")}) = 2
    /\ values["t1"].customer_id # Null
    /\ Last(trace["t1"]) = Event("supervisor", "completed")

====
